---- MODULE Spec2Model ----
(***************************************************************************)
(* Panchang derivation engine of vedic-ai-core (src/main.py): DegreeSpace, *)
(* PanchangCalculator, LongitudeExtractor and the routes that feed them.   *)
(*                                                                         *)
(* Degrees are Python floats.  A float is modelled as an integer count of  *)
(* 2^-FracBits degree that has at most MantBits significant bits; every    *)
(* arithmetic operation computes the exact result and rounds it to the     *)
(* nearest such number, ties to even, as IEEE-754 binary arithmetic does   *)
(* (with MantBits = 53 for the doubles Python uses).                       *)
(***************************************************************************)
EXTENDS Integers, Sequences, FiniteSets, TLC

\* ------------------------------------------------------------------------
\* Bounds of the model
\* ------------------------------------------------------------------------
MantBits == 16
FracBits == 20

Unit == 2^FracBits
Deg(d) == d * Unit

\* ------------------------------------------------------------------------
\* Float arithmetic (round to nearest, ties to even)
\* ------------------------------------------------------------------------
Abs(n) == IF n < 0 THEN -n ELSE n
Sgn(n) == IF n < 0 THEN -1 ELSE 1
Max(a, b) == IF a >= b THEN a ELSE b

RECURSIVE BitLen(_)
BitLen(n) == IF n = 0 THEN 0 ELSE 1 + BitLen(n \div 2)

\* q >= 0 rounded to a multiple of 2^g (g >= 1); sticky: the exact value lies
\* strictly above q.
RoundHalfEven(q, sticky, g) ==
    LET m    == q \div (2^g)
        r    == q % (2^g)
        half == 2^(g - 1)
        up   == \/ r > half
                \/ r = half /\ sticky
                \/ r = half /\ ~sticky /\ m % 2 = 1
    IN  (IF up THEN m + 1 ELSE m) * (2^g)

\* the float nearest to the exact value n
FRound(n) ==
    LET a == Abs(n)
        g == BitLen(a) - MantBits
    IN  IF g <= 0 THEN n ELSE Sgn(n) * RoundHalfEven(a, FALSE, g)

FAdd(x, y) == FRound(x + y)
FSub(x, y) == FRound(x - y)

\* k * x for an integer k (an int converted to float, then a float product)
FMulInt(k, x) == FRound(k * x)

\* <<floor(a * 2^n / y), remainder>> by long division
RECURSIVE LongDiv(_, _, _, _)
LongDiv(q, r, y, n) ==
    IF n = 0 THEN <<q, r>>
    ELSE LongDiv(2 * q + ((2 * r) \div y), (2 * r) % y, y, n - 1)

\* x / y for y > 0
FDiv(x, y) ==
    LET a  == Abs(x)
        qr == LongDiv(a \div y, a % y, y, FracBits + 1)
        g  == Max(1, BitLen(qr[1]) - MantBits)
    IN  Sgn(x) * (RoundHalfEven(qr[1], qr[2] # 0, g) \div 2)

\* Python's x % y on floats for y > 0: C fmod (exact, sign of x), then y is
\* added (a rounded float addition) when the remainder is negative.
FMod(x, y) ==
    LET m == Sgn(x) * (Abs(x) % y)
    IN  IF m < 0 THEN FAdd(m, y) ELSE m

\* int(floor(x))
Floor(x) == x \div Unit

\* round(x, 4) as a count of ten-thousandths (ties to even on the exact value)
Round4Frac(f) ==
    LET s == 2^(FracBits - 4)
        n == f * 625
        m == n \div s
        r == n % s
        up == (2 * r > s) \/ (2 * r = s /\ m % 2 = 1)
    IN  IF up THEN m + 1 ELSE m

Round4(x) ==
    LET a == Abs(x)
    IN  Sgn(x) * ((a \div Unit) * 10000 + Round4Frac(a % Unit))

\* ------------------------------------------------------------------------
\* Name tables
\* ------------------------------------------------------------------------
NAKSHATRA_NAMES == <<
    "Ashwini", "Bharani", "Krittika", "Rohini", "Mrigashirsha", "Ardra",
    "Punarvasu", "Pushya", "Ashlesha", "Magha", "Purva Phalguni",
    "Uttara Phalguni", "Hasta", "Chitra", "Swati", "Vishakha", "Anuradha",
    "Jyeshtha", "Mula", "Purva Ashadha", "Uttara Ashadha", "Shravana",
    "Dhanishta", "Shatabhisha", "Purva Bhadrapada", "Uttara Bhadrapada",
    "Revati" >>

TITHI_NAMES == <<
    "Pratipada", "Dvitiya", "Tritiya", "Chaturthi", "Panchami", "Shashthi",
    "Saptami", "Ashtami", "Navami", "Dashami", "Ekadashi", "Dvadashi",
    "Trayodashi", "Chaturdashi", "Purnima",
    "Pratipada", "Dvitiya", "Tritiya", "Chaturthi", "Panchami", "Shashthi",
    "Saptami", "Ashtami", "Navami", "Dashami", "Ekadashi", "Dvadashi",
    "Trayodashi", "Chaturdashi", "Amavasya" >>

YOGA_NAMES == <<
    "Vishkumbha", "Priti", "Ayushman", "Saubhagya", "Shobhana", "Atiganda",
    "Sukarman", "Dhriti", "Shoola", "Ganda", "Vriddhi", "Dhruva", "Vyaghata",
    "Harshana", "Vajra", "Siddhi", "Vyatipata", "Variyana", "Parigha",
    "Shiva", "Siddha", "Sadhya", "Shubha", "Shukla", "Brahma", "Indra",
    "Vaidhriti" >>

RASHI_NAMES == <<
    "Aries", "Taurus", "Gemini", "Cancer", "Leo", "Virgo", "Libra",
    "Scorpio", "Sagittarius", "Capricorn", "Aquarius", "Pisces" >>

\* ------------------------------------------------------------------------
\* DegreeSpace
\* ------------------------------------------------------------------------
deg_norm(x) ==
    LET x1 == FMod(x, Deg(360))
    IN  IF x1 < 0 THEN FAdd(x1, Deg(360)) ELSE x1

\* ------------------------------------------------------------------------
\* PanchangCalculator.  A result is a record; st = "ok" for a returned
\* dictionary and st = "IndexError" when the name-table subscript raises
\* (the fields then hold the values computed before the lookup).
\* ------------------------------------------------------------------------
NoResult ==
    [st |-> "none", index |-> 0, name |-> "", paksha |-> "", pada |-> 0,
     progress |-> 0, degree_in_sign |-> 0]

Lookup(table, i0) == IF i0 \in 0 .. Len(table) - 1 THEN table[i0 + 1] ELSE ""
LookupSt(table, i0) ==
    IF i0 \in 0 .. Len(table) - 1 THEN "ok" ELSE "IndexError"

\* 13 deg 20 min
seg == FAdd(Deg(13), FDiv(Deg(20), Deg(60)))

compute_rashi(longitude) ==
    LET lon  == deg_norm(longitude)
        idx0 == Floor(FDiv(lon, Deg(30)))
        st   == LookupSt(RASHI_NAMES, idx0)
        degree_in_sign == FSub(lon, FMulInt(idx0, Deg(30)))
    IN  [NoResult EXCEPT !.st = st, !.index = idx0 + 1,
            !.name = Lookup(RASHI_NAMES, idx0),
            !.degree_in_sign =
                IF st = "ok" THEN Round4(degree_in_sign) ELSE 0]

compute_tithi(sun_d, moon_d) ==
    LET diff        == deg_norm(FSub(moon_d, sun_d))
        tithi_index == Floor(FDiv(diff, Deg(12))) + 1
        paksha      == IF tithi_index <= 15 THEN "Shukla" ELSE "Krishna"
        st          == LookupSt(TITHI_NAMES, tithi_index - 1)
        progress    == FDiv(FMod(diff, Deg(12)), Deg(12))
    IN  [NoResult EXCEPT !.st = st, !.index = tithi_index,
            !.name = Lookup(TITHI_NAMES, tithi_index - 1),
            !.paksha = paksha,
            !.progress = IF st = "ok" THEN Round4(progress) ELSE 0]

compute_nakshatra(moon_d) ==
    LET idx0     == Floor(FDiv(deg_norm(moon_d), seg))
        st       == LookupSt(NAKSHATRA_NAMES, idx0)
        within   == FSub(deg_norm(moon_d), FMulInt(idx0, seg))
        pada     == Floor(FDiv(within, FDiv(seg, Deg(4)))) + 1
        progress == FDiv(within, seg)
    IN  [NoResult EXCEPT !.st = st, !.index = idx0 + 1,
            !.name = Lookup(NAKSHATRA_NAMES, idx0),
            !.pada = IF st = "ok" THEN pada ELSE 0,
            !.progress = IF st = "ok" THEN Round4(progress) ELSE 0]

compute_yoga(sun_d, moon_d) ==
    LET total    == deg_norm(FAdd(sun_d, moon_d))
        idx0     == Floor(FDiv(total, seg))
        st       == LookupSt(YOGA_NAMES, idx0)
        within   == FSub(total, FMulInt(idx0, seg))
        progress == FDiv(within, seg)
    IN  [NoResult EXCEPT !.st = st, !.index = idx0 + 1,
            !.name = Lookup(YOGA_NAMES, idx0),
            !.progress = IF st = "ok" THEN Round4(progress) ELSE 0]

repeating ==
    <<"Bava", "Balava", "Kaulava", "Taitila", "Garaja", "Vanija", "Vishti">>

\* compute_karana with the repeating cycle aligned one step off
compute_karana_offcycle(sun_d, moon_d) ==
    LET diff       == deg_norm(FSub(moon_d, sun_d))
        half_tithi == Floor(FDiv(diff, Deg(6))) + 1
        name       == IF half_tithi = 1 THEN "Kimstughna"
                      ELSE IF half_tithi \in {58, 59, 60}
                           THEN CASE half_tithi = 58 -> "Shakuni"
                                  [] half_tithi = 59 -> "Chatushpada"
                                  [] half_tithi = 60 -> "Naga"
                           ELSE repeating[((half_tithi - 1) % 7) + 1]
        progress   == FDiv(FMod(diff, Deg(6)), Deg(6))
    IN  [NoResult EXCEPT !.st = "ok", !.index = half_tithi, !.name = name,
            !.progress = Round4(progress)]

compute_karana(sun_d, moon_d) ==
    LET diff       == deg_norm(FSub(moon_d, sun_d))
        half_tithi == Floor(FDiv(diff, Deg(6))) + 1
        name       == IF half_tithi = 1 THEN "Kimstughna"
                      ELSE IF half_tithi \in {58, 59, 60}
                           THEN CASE half_tithi = 58 -> "Shakuni"
                                  [] half_tithi = 59 -> "Chatushpada"
                                  [] half_tithi = 60 -> "Naga"
                           ELSE repeating[((half_tithi - 2) % 7) + 1]
        progress   == FDiv(FMod(diff, Deg(6)), Deg(6))
    IN  [NoResult EXCEPT !.st = "ok", !.index = half_tithi, !.name = name,
            !.progress = Round4(progress)]

\* ------------------------------------------------------------------------
\* JSON values of the upstream response.  t is the Python type: "null"
\* (None), "num" (int or float, n its value), "numstr" (a str whose text
\* float() parses, n the parsed value), "str" (any other str, s its text),
\* "list" (kv its items) and "dict" (kv its <<key, value>> pairs in
\* insertion order).
\* ------------------------------------------------------------------------
None == <<>>
Some(x) == <<x>>

JNull == [t |-> "null", n |-> 0, s |-> "", kv |-> <<>>]
JNum(x) == [t |-> "num", n |-> x, s |-> "", kv |-> <<>>]
JNumStr(x) == [t |-> "numstr", n |-> x, s |-> "", kv |-> <<>>]
JStr(str) == [t |-> "str", n |-> 0, s |-> str, kv |-> <<>>]
JList(items) == [t |-> "list", n |-> 0, s |-> "", kv |-> items]
JDict(pairs) == [t |-> "dict", n |-> 0, s |-> "", kv |-> pairs]

\* isinstance(x, dict), isinstance(x, list)
IsDict(x) == x.t = "dict"
IsList(x) == x.t = "list"

\* key in d
HasKey(d, key) == \E j \in 1 .. Len(d.kv) : d.kv[j][1] = key

\* d.get(key): the value, or None
Get(d, key) ==
    IF HasKey(d, key)
    THEN d.kv[CHOOSE j \in 1 .. Len(d.kv) : d.kv[j][1] = key][2]
    ELSE JNull

\* bool(x), as used by `x or {}`
Truthy(x) ==
    CASE x.t = "null" -> FALSE
      [] x.t = "num" -> x.n # 0
      [] x.t = "numstr" -> TRUE
      [] x.t = "str" -> x.s # ""
      [] OTHER -> Len(x.kv) > 0

\* float() replaced by taking the field as it is
ToFloat_unchecked(v) == Some(v.n)

\* float(v) inside try/except: <<value>>, or <<>> when float() raises
ToFloat(v) == IF v.t \in {"num", "numstr"} THEN Some(v.n) ELSE None

\* iter_objects: every dict of the tree, parents before children
RECURSIVE iter_objects(_)
RECURSIVE IterEach(_, _)
IterEach(values, j) ==
    IF j > Len(values) THEN <<>>
    ELSE iter_objects(values[j]) \o IterEach(values, j + 1)

iter_objects(x) ==
    IF IsDict(x)
    THEN <<x>> \o IterEach([j \in 1 .. Len(x.kv) |-> x.kv[j][2]], 1)
    ELSE IF IsList(x) THEN IterEach(x.kv, 1)
    ELSE <<>>

\* find_total_degrees: the first TotalDegrees of the tree, depth first; a
\* TotalDegrees that float() rejects ends the search of its dict with None
RECURSIVE find_total_degrees(_)
RECURSIVE FindInItems(_, _)
RECURSIVE FindInList(_, _)
FindInItems(pairs, j) ==
    IF j > Len(pairs) THEN None
    ELSE IF pairs[j][1] = "TotalDegrees" THEN ToFloat(pairs[j][2])
    ELSE LET found == find_total_degrees(pairs[j][2])
         IN  IF found # None THEN found ELSE FindInItems(pairs, j + 1)

FindInList(items, j) ==
    IF j > Len(items) THEN None
    ELSE LET found == find_total_degrees(items[j])
         IN  IF found # None THEN found ELSE FindInList(items, j + 1)

find_total_degrees(x) ==
    IF IsDict(x) THEN FindInItems(x.kv, 1)
    ELSE IF IsList(x) THEN FindInList(x.kv, 1)
    ELSE None

\* Payload -> AllPlanetData, when it is the list of the known shape
AllPlanetData(json) ==
    IF IsDict(json) /\ IsDict(Get(json, "Payload"))
          /\ IsList(Get(Get(json, "Payload"), "AllPlanetData"))
    THEN Get(Get(json, "Payload"), "AllPlanetData").kv
    ELSE <<>>

\* extract_sun_moon_longitudes, fast path: <<sun_deg, moon_deg>> after the
\* loop over the entries from j on
RECURSIVE FastPathFrom(_, _, _, _)
FastPathFrom(entries, j, sun, moon) ==
    IF j > Len(entries) THEN <<sun, moon>>
    ELSE LET entry == entries[j]
         IN  IF ~IsDict(entry) THEN FastPathFrom(entries, j + 1, sun, moon)
             ELSE LET sun1 == IF HasKey(entry, "Sun") /\ sun = None
                              THEN find_total_degrees(Get(entry, "Sun"))
                              ELSE sun
                      moon1 == IF HasKey(entry, "Moon") /\ moon = None
                               THEN find_total_degrees(Get(entry, "Moon"))
                               ELSE moon
                  IN  FastPathFrom(entries, j + 1, sun1, moon1)

\* one iteration of the PlanetName walk on obj: <<sun_deg, moon_deg, exc>>
WalkObject(obj, sun, moon) ==
    LET pn == Get(obj, "PlanetName")
    IN  IF ~(IsDict(pn) /\ Get(pn, "Name").t = "str"
               /\ Get(pn, "Name").s \in {"Sun", "Moon"})
        THEN <<sun, moon, "">>
        ELSE LET name == Get(pn, "Name").s
                 got  == Get(obj, "PlanetNirayanaLongitude")
                 lng  == IF Truthy(got) THEN got ELSE JDict(<<>>)
             IN  IF ~IsDict(lng) THEN <<sun, moon, "AttributeError">>
                 ELSE LET td  == Get(lng, "TotalDegrees")
                          val == IF td.t # "null" THEN ToFloat(td) ELSE None
                      IN  << IF name = "Sun" /\ val # None THEN val ELSE sun,
                             IF name = "Moon" /\ val # None THEN val ELSE moon,
                             "" >>

\* one iteration of the fallback loop on obj: <<sun_deg, moon_deg>>
FallbackObject(obj, sun, moon) ==
    LET sunVal  == find_total_degrees(Get(obj, "Sun"))
        moonVal == find_total_degrees(Get(obj, "Moon"))
    IN  << IF HasKey(obj, "Sun") /\ sun = None /\ sunVal # None
           THEN sunVal ELSE sun,
           IF HasKey(obj, "Moon") /\ moon = None /\ moonVal # None
           THEN moonVal ELSE moon >>

\* extract_planet_longitudes
names ==
    <<"Sun", "Moon", "Mars", "Mercury", "Jupiter", "Venus", "Saturn",
      "Rahu", "Ketu">>

get_nirayana_total(x) ==
    IF ~IsDict(x) THEN None
    ELSE LET lng == Get(x, "PlanetNirayanaLongitude")
         IN  IF IsDict(lng) /\ HasKey(lng, "TotalDegrees")
             THEN ToFloat(Get(lng, "TotalDegrees"))
             ELSE None

\* result is the sequence of <<name, value>> in insertion order
InResult(result, name) == \E j \in 1 .. Len(result) : result[j][1] = name
ResultGet(result, name) ==
    IF InResult(result, name)
    THEN Some(result[CHOOSE j \in 1 .. Len(result) : result[j][1] = name][2])
    ELSE None

RECURSIVE PlanetNamesFrom(_, _, _)
PlanetNamesFrom(entry, k, result) ==
    IF k > Len(names) THEN result
    ELSE LET name == names[k]
         IN  IF HasKey(entry, name) /\ ~InResult(result, name)
             THEN LET v1  == get_nirayana_total(Get(entry, name))
                      val == IF v1 = None
                             THEN find_total_degrees(Get(entry, name))
                             ELSE v1
                  IN  PlanetNamesFrom(entry, k + 1,
                          IF val # None
                          THEN Append(result, <<name, val[1]>>)
                          ELSE result)
             ELSE PlanetNamesFrom(entry, k + 1, result)

RECURSIVE PlanetEntriesFrom(_, _, _)
PlanetEntriesFrom(entries, j, result) ==
    IF j > Len(entries) THEN result
    ELSE IF ~IsDict(entries[j]) THEN PlanetEntriesFrom(entries, j + 1, result)
    ELSE PlanetEntriesFrom(entries, j + 1,
             PlanetNamesFrom(entries[j], 1, result))

extract_planet_longitudes(json) == PlanetEntriesFrom(AllPlanetData(json), 1, <<>>)

\* ------------------------------------------------------------------------
\* State
\* ------------------------------------------------------------------------
VARIABLES
    route,       \* the operation in progress
    pc,          \* its position
    data,        \* the upstream AllPlanetData response being read
    pos,         \* position of the running loop
    sun_deg,     \* <<>> for None, <<x>> for the float x
    moon_deg,
    planet_lons, \* result of extract_planet_longitudes
    exc,         \* "" or the exception that ended the operation
    norm,        \* <<>> or <<deg_norm(x)>>
    tithi, nakshatra, yoga, karana, rashi

\* the preparation of a chart request and its upstream calls
VARIABLES
    place,       \* ChartRequest.place, a string as its sequence of characters
    requests,    \* the HTTP requests issued so far, in order
    response,    \* the response being handled, None before it arrives
    location,    \* <<>> or <<s>>, s the string resolve_location returned
    date,        \* ChartRequest.date
    time,        \* ChartRequest.time
    timezone,    \* ChartRequest.timezone: <<>> for None, else <<s>>
    tz_name,     \* what TZ_FINDER.timezone_at returned, <<>> for None
    offset,      \* what utcoffset() returned in seconds, <<>> for None
    tz_offset,   \* <<>> or <<s>>, s the offset string "+HH:MM"
    time_str,    \* <<>> or <<s>>, s the time string sent upstream
    urls,        \* fetch_vedastro_candidates: the number of candidate URLs
    last_error,  \* <<>> for None, else <<e>>, e the exception kept
    failures,    \* the HTTPExceptions the candidates raised, in order
    detail       \* the detail of the HTTPException that ended the call

VARIABLES
    text,        \* chunk_text: the text, a string as its sequence of characters
    chunk_size,  \* chunk_text: the chunk_size argument
    overlap,     \* chunk_text: the overlap argument
    start,       \* chunk_text: the start position of the next chunk
    chunks,      \* chunk_text: the chunks appended so far
    include_dasa,\* ChartFullInput.include_dasa
    dasa_range,  \* whether dasa_from and dasa_to are both given
    slot,        \* /chart/full: the number of the safe_fetch in progress
    slots,       \* /chart/full: what the safe_fetch calls returned, in order
    pages,       \* knowledge_ingest: the pages not read yet
    status,      \* the job file: <<>> while it does not exist, else <<s>>
    writes,      \* the statuses written to the job file, in order
    polled,      \* <<>> or <<a>>, a the last answer of /knowledge/ingest-status
    turns,       \* <<j, k>>: the whole turns added to the Sun and to the Moon
    plain,       \* <<>> or the Panchang of the longitudes as drawn
    shifted      \* <<>> or the Panchang of the longitudes with the turns added

locVars == <<place, requests, response, location>>
fmtVars == <<date, time, timezone, tz_name, offset, tz_offset, time_str>>
fetchVars == <<urls, last_error, failures, detail>>
chunkVars == <<text, chunk_size, overlap, start, chunks>>
fullVars == <<include_dasa, dasa_range, slot, slots>>
jobVars == <<pages, status, writes, polled>>
periodVars == <<turns, plain, shifted>>
extVars == <<chunkVars, fullVars, jobVars, periodVars>>
ioVars == <<locVars, fmtVars, fetchVars, extVars>>

ChunkIdle ==
    /\ text = <<>>
    /\ chunk_size = 0
    /\ overlap = 0
    /\ start = 0
    /\ chunks = <<>>

FullIdle ==
    /\ include_dasa = FALSE
    /\ dasa_range = FALSE
    /\ slot = 0
    /\ slots = <<>>

JobIdle ==
    /\ pages = 0
    /\ status = <<>>
    /\ writes = <<>>
    /\ polled = <<>>

PeriodIdle ==
    /\ turns = <<0, 0>>
    /\ plain = <<>>
    /\ shifted = <<>>

ExtInit == ChunkIdle /\ FullIdle /\ JobIdle /\ PeriodIdle

IoInit ==
    /\ place = <<>>
    /\ requests = <<>>
    /\ response = <<>>
    /\ location = <<>>
    /\ date = <<>>
    /\ time = <<>>
    /\ timezone = <<>>
    /\ tz_name = <<>>
    /\ offset = <<>>
    /\ tz_offset = <<>>
    /\ time_str = <<>>
    /\ urls = 0
    /\ last_error = <<>>
    /\ failures = <<>>
    /\ detail = <<>>
    /\ ExtInit

vars == <<route, pc, data, pos, sun_deg, moon_deg, planet_lons, exc, norm,
          tithi, nakshatra, yoga, karana, rashi, ioVars>>

requestVars == <<route, data, pos, sun_deg, moon_deg, planet_lons, exc>>

\* ------------------------------------------------------------------------
\* The calculator applied to longitudes drawn from SunInputs x MoonInputs
\* ------------------------------------------------------------------------
MoonSteps == 120

\* spacing of the floats just below d degrees (d not a power of two)
UlpBelow(d) == 2^Max(0, BitLen(Deg(d)) - MantBits)

EdgeInputs ==
    { -1, 1, Deg(-30), Deg(-360), Deg(-390), Deg(360), Deg(372), Deg(400),
      Deg(6) - UlpBelow(6), Deg(12) - UlpBelow(12), Deg(24) - UlpBelow(24),
      Deg(30) - UlpBelow(30), Deg(360) - UlpBelow(360),
      seg - UlpBelow(13), FMulInt(11, seg), FMulInt(17, seg),
      FMulInt(22, seg), Deg(100) + Unit \div 2 }

MoonInputs == { Deg(3 * k) : k \in 0 .. MoonSteps } \cup EdgeInputs
SunInputs == { 0, -1, Deg(-30), Deg(372), Deg(100) + Unit \div 2,
               FMulInt(5, seg) }

CalcInit ==
    /\ route = "calc"
    /\ pc = "ready"
    /\ data = JNull
    /\ pos = 0
    /\ planet_lons = <<>>
    /\ sun_deg \in { Some(FRound(s)) : s \in SunInputs }
    /\ moon_deg \in { Some(FRound(m)) : m \in MoonInputs }
    /\ exc = ""
    /\ norm = None
    /\ tithi = NoResult /\ nakshatra = NoResult /\ yoga = NoResult
    /\ karana = NoResult /\ rashi = NoResult
    /\ IoInit

CallDegNorm ==
    /\ route = "calc" /\ pc = "ready"
    /\ norm' = Some(deg_norm(moon_deg[1]))
    /\ pc' = "returned"
    /\ UNCHANGED <<requestVars, tithi, nakshatra, yoga, karana, rashi>>
    /\ UNCHANGED ioVars

CallRashi ==
    /\ route = "calc" /\ pc = "ready"
    /\ rashi' = compute_rashi(moon_deg[1])
    /\ pc' = "returned"
    /\ UNCHANGED <<requestVars, norm, tithi, nakshatra, yoga, karana>>
    /\ UNCHANGED ioVars

CallTithi ==
    /\ route = "calc" /\ pc = "ready"
    /\ tithi' = compute_tithi(sun_deg[1], moon_deg[1])
    /\ pc' = "returned"
    /\ UNCHANGED <<requestVars, norm, nakshatra, yoga, karana, rashi>>
    /\ UNCHANGED ioVars

CallNakshatra ==
    /\ route = "calc" /\ pc = "ready"
    /\ nakshatra' = compute_nakshatra(moon_deg[1])
    /\ pc' = "returned"
    /\ UNCHANGED <<requestVars, norm, tithi, yoga, karana, rashi>>
    /\ UNCHANGED ioVars

CallYoga ==
    /\ route = "calc" /\ pc = "ready"
    /\ yoga' = compute_yoga(sun_deg[1], moon_deg[1])
    /\ pc' = "returned"
    /\ UNCHANGED <<requestVars, norm, tithi, nakshatra, karana, rashi>>
    /\ UNCHANGED ioVars

CallKarana ==
    /\ route = "calc" /\ pc = "ready"
    /\ karana' = compute_karana(sun_deg[1], moon_deg[1])
    /\ pc' = "returned"
    /\ UNCHANGED <<requestVars, norm, tithi, nakshatra, yoga, rashi>>
    /\ UNCHANGED ioVars

CalcNext ==
    \/ CallDegNorm
    \/ CallRashi
    \/ CallTithi
    \/ CallNakshatra
    \/ CallYoga
    \/ CallKarana

CalcSpec == CalcInit /\ [][CalcNext]_vars

\* ------------------------------------------------------------------------
\* The routes that compute a Panchang.  The upstream response is drawn from
\* Payloads: up to MaxEntries per-planet entries in one of three nestings.
\* ------------------------------------------------------------------------
MaxEntries == 2

TD(v) == JDict(<< <<"TotalDegrees", v>> >>)

\* an object carrying a PlanetName marker and a longitude field
PN(name, lng) ==
    JDict(<< <<"PlanetName", JDict(<< <<"Name", JStr(name)>> >>)>>,
             <<"PlanetNirayanaLongitude", lng>> >>)

EntryChoices ==
    { PN("Sun", TD(JNum(Deg(10)))),
      PN("Sun", TD(JNum(Deg(372)))),
      PN("Moon", TD(JNumStr(Deg(22)))),
      PN("Moon", TD(JNum(-1))),
      PN("Sun", JStr("n/a")),
      PN("Moon", TD(JStr("x"))),
      PN("Sun", JNull),
      JDict(<< <<"Sun", JDict(<< <<"PlanetNirayanaLongitude",
                                   TD(JNum(Deg(100) + Unit \div 2))>> >>)>>,
               <<"Moon", TD(JNum(Deg(250)))>> >>),
      JDict(<< <<"Sun", TD(JNum(Deg(-30)))>> >>),
      JDict(<< <<"Moon", JList(<<JStr("x"), TD(JStr("x")),
                                 TD(JNum(Deg(359)))>>)>>,
               <<"Mars", TD(JNum(Deg(45)))>> >>),
      JNum(Deg(5)) }

EntryLists ==
    UNION { [1 .. n -> EntryChoices] : n \in 0 .. MaxEntries }

Payloads ==
    { JDict(<< <<"Status", JStr("Pass")>>,
               <<"Payload", JDict(<< <<"AllPlanetData", JList(es)>> >>)>> >>)
        : es \in EntryLists }
    \cup { JDict(<< <<"Status", JStr("Pass")>>,
                    <<"Payload", JList(es)>> >>) : es \in EntryLists }
    \cup { JList(es) : es \in EntryLists }
    \cup { JNull, JNum(Deg(5)), JStr("Invalid API key") }

\* str.lower() on the planet names a chart may carry
Lower(name) ==
    CASE name \in {"Sun", "SUN", "sun"} -> "sun"
      [] name \in {"Moon", "MOON", "moon"} -> "moon"
      [] name = "Mars" -> "mars"
      [] OTHER -> name

\* chart.planets of the POST /panchang body: <<name, longitude>> pairs
Charts ==
    { <<>>,
      << <<"Sun", Some(Deg(372))>>, <<"MOON", Some(Deg(-30))>> >>,
      << <<"sun", Some(Deg(10))>>, <<"Mars", Some(Deg(45))>>,
         <<"SUN", Some(Deg(-30))>> >>,
      << <<"Moon", None>>, <<"moon", Some(Deg(359))>> >> }

BodyDegrees == { None, Some(Deg(12)), Some(Deg(-390)), Some(Deg(360)) }

RECURSIVE ChartFrom(_, _, _, _)
ChartFrom(planets, j, sun, moon) ==
    IF j > Len(planets) THEN <<sun, moon>>
    ELSE LET name == Lower(planets[j][1])
             lon  == planets[j][2]
         IN  ChartFrom(planets, j + 1,
                 IF name = "sun" /\ lon # None THEN lon ELSE sun,
                 IF name = "moon" /\ lon # None THEN lon ELSE moon)

_extract_sun_moon_from_chart(planets) == ChartFrom(planets, 1, None, None)

Init ==
    /\ route = "idle"
    /\ pc = "idle"
    /\ data = JNull
    /\ pos = 0
    /\ sun_deg = None
    /\ moon_deg = None
    /\ planet_lons = <<>>
    /\ exc = ""
    /\ norm = None
    /\ tithi = NoResult /\ nakshatra = NoResult /\ yoga = NoResult
    /\ karana = NoResult /\ rashi = NoResult
    /\ IoInit

results == <<norm, tithi, nakshatra, yoga, karana, rashi>>

\* GET /panchang: the AllPlanetData response has arrived
GetPanchang ==
    /\ pc = "idle"
    /\ \E d \in Payloads : data' = d
    /\ route' = "get_panchang"
    /\ pc' = "sm_fast"
    /\ UNCHANGED <<pos, sun_deg, moon_deg, planet_lons, exc, results>>
    /\ UNCHANGED ioVars

\* POST /chart/full: the AllPlanetData response has arrived
ChartFull ==
    /\ pc = "idle"
    /\ \E d \in Payloads : data' = d
    /\ route' = "chart_full"
    /\ pc' = "sm_fast"
    /\ UNCHANGED <<pos, sun_deg, moon_deg, planet_lons, exc, results>>
    /\ UNCHANGED ioVars

\* POST /chart/summary: the AllPlanetData response has arrived
ChartSummary ==
    /\ pc = "idle"
    /\ \E d \in Payloads : data' = d
    /\ route' = "chart_summary"
    /\ pc' = "summary_extract"
    /\ UNCHANGED <<pos, sun_deg, moon_deg, planet_lons, exc, results>>
    /\ UNCHANGED ioVars

\* extract_sun_moon_longitudes: the fast path
ExtractFast ==
    /\ pc = "sm_fast"
    /\ LET r == FastPathFrom(AllPlanetData(data), 1, None, None)
       IN  sun_deg' = r[1] /\ moon_deg' = r[2]
    /\ pos' = 1
    /\ pc' = "sm_walk"
    /\ UNCHANGED <<route, data, planet_lons, exc, results>>
    /\ UNCHANGED ioVars

\* one iteration of `for obj in iter_objects(all_planets_json)`
WalkStep ==
    /\ pc = "sm_walk"
    /\ pos <= Len(iter_objects(data))
    /\ LET r == WalkObject(iter_objects(data)[pos], sun_deg, moon_deg)
       IN  /\ sun_deg' = r[1]
           /\ moon_deg' = r[2]
           /\ exc' = r[3]
           /\ pc' = IF r[3] = "" THEN "sm_walk" ELSE "raised"
    /\ pos' = pos + 1
    /\ UNCHANGED <<route, data, planet_lons, results>>
    /\ UNCHANGED ioVars

\* the walk is over: enter the fallback loop when a planet is missing
WalkDone ==
    /\ pc = "sm_walk"
    /\ pos > Len(iter_objects(data))
    /\ pc' = IF sun_deg = None \/ moon_deg = None
             THEN "sm_fallback" ELSE "sm_check"
    /\ pos' = 1
    /\ UNCHANGED <<route, data, sun_deg, moon_deg, planet_lons, exc, results>>
    /\ UNCHANGED ioVars

\* one iteration of the fallback loop
FallbackStep ==
    /\ pc = "sm_fallback"
    /\ pos <= Len(iter_objects(data))
    /\ LET r == FallbackObject(iter_objects(data)[pos], sun_deg, moon_deg)
       IN  sun_deg' = r[1] /\ moon_deg' = r[2]
    /\ pos' = pos + 1
    /\ UNCHANGED <<route, pc, data, planet_lons, exc, results>>
    /\ UNCHANGED ioVars

FallbackDone ==
    /\ pc = "sm_fallback"
    /\ pos > Len(iter_objects(data))
    /\ pc' = "sm_check"
    /\ UNCHANGED <<route, data, pos, sun_deg, moon_deg, planet_lons, exc,
                   results>>
    /\ UNCHANGED ioVars

\* the final test of extract_sun_moon_longitudes and its return
\* the final test with `and` in place of `or`
MissingPlanet_both(sun, moon) == sun = None /\ moon = None

MissingPlanet(sun, moon) == sun = None \/ moon = None

ExtractCheck ==
    /\ pc = "sm_check"
    /\ IF MissingPlanet(sun_deg, moon_deg)
       THEN /\ exc' = "HTTPException 500 Could not extract Sun/Moon"
            /\ pc' = "raised"
       ELSE /\ exc' = exc
            /\ pc' = IF route = "get_panchang" THEN "normalize" ELSE "compute"
    /\ UNCHANGED <<route, data, pos, sun_deg, moon_deg, planet_lons, results>>
    /\ UNCHANGED ioVars

\* POST /panchang up to the 422 test
PostPanchang ==
    /\ pc = "idle"
    /\ route' = "post_panchang"
    /\ \E s \in BodyDegrees, m \in BodyDegrees, hasChart \in BOOLEAN,
          planets \in Charts :
          LET fromChart == _extract_sun_moon_from_chart(planets)
              useChart  == (s = None \/ m = None) /\ hasChart
              sun  == IF useChart /\ s = None THEN fromChart[1] ELSE s
              moon == IF useChart /\ m = None THEN fromChart[2] ELSE m
          IN  /\ sun_deg' = sun
              /\ moon_deg' = moon
              /\ IF sun = None \/ moon = None
                 THEN /\ exc' = "HTTPException 422 Provide sun_deg and moon_deg"
                      /\ pc' = "raised"
                 ELSE /\ exc' = exc
                      /\ pc' = "normalize"
    /\ UNCHANGED <<data, pos, planet_lons, results>>
    /\ UNCHANGED ioVars

\* sun_deg = deg_norm(sun_deg); moon_deg = deg_norm(moon_deg)
Normalize ==
    /\ pc = "normalize"
    /\ route \in {"get_panchang", "post_panchang"}
    /\ sun_deg' = Some(deg_norm(sun_deg[1]))
    /\ moon_deg' = Some(deg_norm(moon_deg[1]))
    /\ pc' = "compute"
    /\ UNCHANGED <<route, data, pos, planet_lons, exc, results>>
    /\ UNCHANGED ioVars

\* /chart/summary: extract_planet_longitudes
SummaryExtract ==
    /\ pc = "summary_extract"
    /\ planet_lons' = extract_planet_longitudes(data)
    /\ pc' = "summary_planets"
    /\ UNCHANGED <<route, data, pos, sun_deg, moon_deg, exc, results>>
    /\ UNCHANGED ioVars

\* /chart/summary: the per-planet rashi and nakshatra, then the Sun/Moon test
SummaryPlanets ==
    /\ pc = "summary_planets"
    /\ LET bad == \E j \in 1 .. Len(planet_lons) :
                     \/ compute_rashi(planet_lons[j][2]).st # "ok"
                     \/ compute_nakshatra(planet_lons[j][2]).st # "ok"
           sun  == ResultGet(planet_lons, "Sun")
           moon == ResultGet(planet_lons, "Moon")
       IN  IF bad
           THEN /\ exc' = "IndexError"
                /\ pc' = "raised"
                /\ UNCHANGED <<sun_deg, moon_deg>>
           ELSE /\ sun_deg' = sun
                /\ moon_deg' = moon
                /\ IF sun = None \/ moon = None
                   THEN /\ exc' = "HTTPException 500 Sun/Moon missing"
                        /\ pc' = "raised"
                   ELSE /\ exc' = exc
                        /\ pc' = "compute"
    /\ UNCHANGED <<route, data, pos, planet_lons, results>>
    /\ UNCHANGED ioVars

\* the panchang dictionary: tithi, nakshatra, yoga, karana in this order,
\* ended by the first call that raises
Compute ==
    /\ pc = "compute"
    /\ LET t == compute_tithi(sun_deg[1], moon_deg[1])
           n == compute_nakshatra(moon_deg[1])
           y == compute_yoga(sun_deg[1], moon_deg[1])
           k == compute_karana(sun_deg[1], moon_deg[1])
           okT == t.st = "ok"
           okN == okT /\ n.st = "ok"
           okY == okN /\ y.st = "ok"
       IN  /\ tithi' = t
           /\ nakshatra' = IF okT THEN n ELSE NoResult
           /\ yoga' = IF okN THEN y ELSE NoResult
           /\ karana' = IF okY THEN k ELSE NoResult
           /\ exc' = IF okY THEN exc ELSE "IndexError"
           /\ pc' = IF okY THEN "done" ELSE "raised"
    /\ UNCHANGED <<route, data, pos, sun_deg, moon_deg, planet_lons, norm,
                   rashi>>
    /\ UNCHANGED ioVars

Next ==
    \/ GetPanchang
    \/ PostPanchang
    \/ ChartFull
    \/ ChartSummary
    \/ ExtractFast
    \/ WalkStep
    \/ WalkDone
    \/ FallbackStep
    \/ FallbackDone
    \/ ExtractCheck
    \/ Normalize
    \/ SummaryExtract
    \/ SummaryPlanets
    \/ Compute

Spec == Init /\ [][Next]_vars

\* ------------------------------------------------------------------------
\* Strings are sequences of one-character strings.  A float is held as the
\* decimal digits Python prints for it: the strings of the model have at
\* most five digits on either side of the point, where float() and repr()
\* are exact on the decimal value and repr() uses no exponent.
\* ------------------------------------------------------------------------
Digits == {"0", "1", "2", "3", "4", "5", "6", "7", "8", "9"}

\* str.split(sep)
RECURSIVE Split(_, _)
Split(s, sep) ==
    IF \A j \in 1 .. Len(s) : s[j] # sep THEN <<s>>
    ELSE LET j0 == CHOOSE j \in 1 .. Len(s) :
                      s[j] = sep /\ \A k \in 1 .. j - 1 : s[k] # sep
         IN  <<SubSeq(s, 1, j0 - 1)>> \o Split(SubSeq(s, j0 + 1, Len(s)), sep)

\* str.strip()
Strip(s) ==
    IF \A j \in 1 .. Len(s) : s[j] = " " THEN <<>>
    ELSE LET a == CHOOSE j \in 1 .. Len(s) :
                     s[j] # " " /\ \A k \in 1 .. j - 1 : s[k] = " "
             b == CHOOSE j \in 1 .. Len(s) :
                     s[j] # " " /\ \A k \in j + 1 .. Len(s) : s[k] = " "
         IN  SubSeq(s, a, b)

\* the integer digits without leading zeros, the fraction digits without
\* trailing zeros, "0" when nothing is left
RECURSIVE IntDigits(_)
IntDigits(ds) ==
    IF ds = <<>> THEN <<"0">>
    ELSE IF ds[1] = "0" /\ Len(ds) > 1 THEN IntDigits(Tail(ds))
    ELSE ds

RECURSIVE FracDigits(_)
FracDigits(ds) ==
    IF ds = <<>> THEN <<"0">>
    ELSE IF ds[Len(ds)] = "0" /\ Len(ds) > 1
         THEN FracDigits(SubSeq(ds, 1, Len(ds) - 1))
    ELSE ds

\* float(s) on a stripped string: None for ValueError
ParseFloat(s) ==
    LET signed == Len(s) > 0 /\ s[1] \in {"+", "-"}
        body   == IF signed THEN Tail(s) ELSE s
        parts  == Split(body, ".")
        ip     == parts[1]
        fp     == IF Len(parts) > 1 THEN parts[2] ELSE <<>>
    IN  IF /\ Len(parts) <= 2
           /\ Len(ip) + Len(fp) >= 1
           /\ \A j \in 1 .. Len(ip) : ip[j] \in Digits
           /\ \A j \in 1 .. Len(fp) : fp[j] \in Digits
        THEN Some([neg |-> signed /\ s[1] = "-",
                   ip |-> IntDigits(ip), fp |-> FracDigits(fp)])
        ELSE None

\* a float printed without ".0" when it is integer-valued
Repr_general(x) ==
    (IF x.neg THEN <<"-">> ELSE <<>>) \o x.ip
        \o (IF x.fp = <<"0">> THEN <<>> ELSE <<".">> \o x.fp)

\* f"{x}" of a float
Repr(x) == (IF x.neg THEN <<"-">> ELSE <<>>) \o x.ip \o <<".">> \o x.fp

\* _parse_lat_lon: <<>> for None, else << <<lat, lon>> >>
_parse_lat_lon(loc) ==
    LET parts == Split(loc, ",")
    IN  IF Len(parts) # 2 THEN None
        ELSE LET lat == ParseFloat(Strip(parts[1]))
                 lon == ParseFloat(Strip(parts[2]))
             IN  IF lat = None \/ lon = None THEN None
                 ELSE Some(<<lat[1], lon[1]>>)

\* _looks_like_lat_lon: <<>> for None, else <<f"{lat},{lon}">>
_looks_like_lat_lon(p) ==
    LET parts == Split(p, ",")
    IN  IF Len(parts) # 2 THEN None
        ELSE LET lat == ParseFloat(Strip(parts[1]))
                 lon == ParseFloat(Strip(parts[2]))
             IN  IF lat = None \/ lon = None THEN None
                 ELSE Some(Repr(lat[1]) \o <<",">> \o Repr(lon[1]))

\* geocode_place from the arrival of the response on: the exception raised
\* ("" for none) and the string returned
GeoResult(e, v) == [exc |-> e, value |-> v]

geocode_place(r) ==
    IF r.err # "" THEN GeoResult(r.err, <<>>)
    ELSE IF r.status_code # 200
    THEN GeoResult("HTTPException 502 Geocoding error", <<>>)
    ELSE IF r.json.t = "invalid" THEN GeoResult("JSONDecodeError", <<>>)
    ELSE IF r.json.t = "null" \/ Len(r.json.kv) = 0
    THEN GeoResult("HTTPException 404 Place not found for geocoding", <<>>)
    ELSE IF IsDict(r.json) THEN GeoResult("KeyError", <<>>)
    ELSE IF ~IsDict(r.json.kv[1]) THEN GeoResult("AttributeError", <<>>)
    ELSE LET lat == Get(r.json.kv[1], "lat")
             lon == Get(r.json.kv[1], "lon")
         IN  IF lat.t = "null" \/ lon.t = "null"
             THEN GeoResult("HTTPException 502 Geocoding response incomplete",
                            <<>>)
             ELSE GeoResult("", lat.s \o <<",">> \o lon.s)

\* ------------------------------------------------------------------------
\* resolve_location as the chart routes call it.  The place is drawn from
\* Places, up to MaxParts comma-separated tokens; the answer of the
\* geocoding service is drawn from GeoResponses.
\* ------------------------------------------------------------------------
MaxParts == 3

Tokens ==
    { <<"4", "8", ".", "8", "5">>,
      <<"2", ".", "3", "5">>,
      <<" ", "4", "8", ".", "8", "5", " ">>,
      <<"4", "8">>,
      <<"2", ".", "3", "5", "0">>,
      <<"-", ".", "5">>,
      <<"P", "a", "r", "i", "s">>,
      <<>> }

\* ",".join(parts)
RECURSIVE Join(_, _)
Join(parts, sep) ==
    IF Len(parts) = 0 THEN <<>>
    ELSE IF Len(parts) = 1 THEN parts[1]
    ELSE parts[1] \o <<sep>> \o Join(Tail(parts), sep)

Places ==
    { Join(f, ",") : f \in UNION { [1 .. n -> Tokens] : n \in 1 .. MaxParts } }

\* a body that is not JSON: r.json() raises
NotJson == [t |-> "invalid", n |-> 0, s |-> "", kv |-> <<>>]

\* the "lat" or "lon" field of a geocoding result: absent, null or a
\* string, held in JStr as its sequence of characters
GeoFields ==
    << None, Some(JNull), Some(JStr(<<"4", "8", ".", "8", "5">>)),
       Some(JStr(<<"a", "b", "c">>)) >>

GeoEntry(lat, lon) ==
    JDict((IF lat = None THEN <<>> ELSE << <<"lat", lat[1]>> >>)
          \o (IF lon = None THEN <<>> ELSE << <<"lon", lon[1]>> >>))

Response(e, code, body) == [err |-> e, status_code |-> code, json |-> body]

GeoResponses ==
    << Response("ConnectError", 0, JNull),
       Response("", 500, JNull),
       Response("", 200, NotJson),
       Response("", 200, JList(<<>>)),
       Response("", 200, JDict(<<>>)),
       Response("", 200, JDict(<< <<"error", JStr(<<"a", "b", "c">>)>> >>)),
       Response("", 200, JList(<<JStr(<<"a", "b", "c">>)>>)) >>
    \o [ j \in 1 .. Len(GeoFields) * Len(GeoFields) |->
           Response("", 200,
               JList(<<GeoEntry(GeoFields[((j - 1) \div Len(GeoFields)) + 1],
                                GeoFields[((j - 1) % Len(GeoFields)) + 1])>>)) ]

panchangVars == <<data, pos, sun_deg, moon_deg, planet_lons, results>>

\* resolve_location up to its return or to the await of geocode_place
ResolveLocation ==
    /\ pc = "idle"
    /\ \E p \in Places :
          /\ place' = p
          /\ LET lat_lon == _looks_like_lat_lon(p)
             IN  IF lat_lon # None /\ lat_lon[1] # <<>>
                 THEN /\ location' = lat_lon
                      /\ requests' = requests
                      /\ pc' = "located"
                 ELSE /\ location' = location
                      /\ requests' = Append(requests, "geocode")
                      /\ pc' = "geocode_wait"
    /\ route' = "resolve_location"
    /\ UNCHANGED <<response, exc, panchangVars>>
    /\ UNCHANGED <<fmtVars, fetchVars>>
    /\ UNCHANGED extVars

\* geocode_place asking the service again after a failed lookup
GeocodeResponse_retry ==
    /\ pc = "geocode_wait"
    /\ \E j \in 1 .. Len(GeoResponses) :
          /\ response' = Some(GeoResponses[j])
          /\ LET g == geocode_place(GeoResponses[j])
             IN  IF g.exc = ""
                 THEN /\ location' = Some(g.value)
                      /\ exc' = exc
                      /\ requests' = requests
                      /\ pc' = "located"
                 ELSE IF Len(requests) < 2
                 THEN /\ location' = location
                      /\ exc' = exc
                      /\ requests' = Append(requests, "geocode")
                      /\ pc' = "geocode_wait"
                 ELSE /\ location' = location
                      /\ exc' = g.exc
                      /\ requests' = requests
                      /\ pc' = "raised"
    /\ UNCHANGED <<route, place, panchangVars>>
    /\ UNCHANGED <<fmtVars, fetchVars>>
    /\ UNCHANGED extVars

\* geocode_place from the response on
GeocodeResponse ==
    /\ pc = "geocode_wait"
    /\ \E j \in 1 .. Len(GeoResponses) :
          /\ response' = Some(GeoResponses[j])
          /\ LET g == geocode_place(GeoResponses[j])
             IN  IF g.exc = ""
                 THEN /\ location' = Some(g.value)
                      /\ exc' = exc
                      /\ pc' = "located"
                 ELSE /\ location' = location
                      /\ exc' = g.exc
                      /\ pc' = "raised"
    /\ UNCHANGED <<route, place, requests, panchangVars>>
    /\ UNCHANGED <<fmtVars, fetchVars>>
    /\ UNCHANGED extVars

\* the route after resolve_location: _parse_lat_lon and its 422
ParseLocation ==
    /\ pc = "located"
    /\ IF _parse_lat_lon(location[1]) = None
       THEN /\ exc' = "HTTPException 422 Could not parse location coordinates"
            /\ pc' = "raised"
       ELSE /\ exc' = exc
            /\ pc' = "parsed"
    /\ UNCHANGED <<route, place, requests, response, location, panchangVars>>
    /\ UNCHANGED <<fmtVars, fetchVars>>
    /\ UNCHANGED extVars

LocNext ==
    \/ ResolveLocation
    \/ GeocodeResponse
    \/ ParseLocation

LocSpec == Init /\ [][LocNext]_vars

\* ------------------------------------------------------------------------
\* resolve_timezone_offset and build_vedastro_time_string
\* ------------------------------------------------------------------------
DigitChars == <<"0", "1", "2", "3", "4", "5", "6", "7", "8", "9">>
DigitVal(c) == (CHOOSE k \in 1 .. 10 : DigitChars[k] = c) - 1

\* int(ds) of a string of digits
RECURSIVE IntOf(_)
IntOf(ds) ==
    IF ds = <<>> THEN 0
    ELSE 10 * IntOf(SubSeq(ds, 1, Len(ds) - 1)) + DigitVal(ds[Len(ds)])

\* str(n) for n >= 0
RECURSIVE Decimal(_)
Decimal(n) ==
    IF n < 10 THEN <<DigitChars[n + 1]>>
    ELSE Decimal(n \div 10) \o <<DigitChars[(n % 10) + 1]>>

\* f"{n:02d}"
Format02d(n) ==
    IF n < 0 THEN <<"-">> \o Decimal(-n)
    ELSE IF n < 10 THEN <<"0">> \o Decimal(n)
    ELSE Decimal(n)

\* a strptime field: one or two digits (exactly four for %Y) in lo .. hi
TimeField(ds, minLen, maxLen, lo, hi) ==
    /\ Len(ds) \in minLen .. maxLen
    /\ \A j \in 1 .. Len(ds) : ds[j] \in Digits
    /\ IntOf(ds) \in lo .. hi

DaysInMonth(year, month) ==
    IF month = 2
    THEN IF year % 4 = 0 /\ (year % 100 # 0 \/ year % 400 = 0)
         THEN 29 ELSE 28
    ELSE IF month \in {4, 6, 9, 11} THEN 30 ELSE 31

\* datetime.strptime(f"{date} {time}", "%Y-%m-%d %H:%M:%S") when
\* seconds, "%Y-%m-%d %H:%M" otherwise: TRUE when it returns
strptime(d, t, seconds) ==
    LET dp == Split(d, "-")
        tp == Split(t, ":")
    IN  /\ Len(dp) = 3
        /\ TimeField(dp[1], 4, 4, 1, 9999)
        /\ TimeField(dp[2], 1, 2, 1, 12)
        /\ TimeField(dp[3], 1, 2, 1, 31)
        /\ IntOf(dp[3]) <= DaysInMonth(IntOf(dp[1]), IntOf(dp[2]))
        /\ Len(tp) = IF seconds THEN 3 ELSE 2
        /\ TimeField(tp[1], 1, 2, 0, 23)
        /\ TimeField(tp[2], 1, 2, 0, 59)
        /\ (seconds => TimeField(tp[3], 1, 2, 0, 59))

\* _parse_local_datetime: TRUE when a datetime is returned
_parse_local_datetime(d, t) == strptime(d, t, TRUE) \/ strptime(d, t, FALSE)

\* int(offset.total_seconds() / 60): truncation toward zero
TotalMinutes(seconds) ==
    IF seconds >= 0 THEN seconds \div 60 ELSE -((-seconds) \div 60)

\* the offset string without abs(): floor division and modulo of the
\* signed minutes
FormatOffset_noabs(total_minutes) ==
    (IF total_minutes >= 0 THEN <<"+">> ELSE <<"-">>)
        \o Format02d(total_minutes \div 60) \o <<":">>
        \o Format02d(total_minutes % 60)

\* f"{sign}{hours:02d}:{minutes:02d}"
FormatOffset(total_minutes) ==
    LET sign    == IF total_minutes >= 0 THEN <<"+">> ELSE <<"-">>
        minutes == IF total_minutes >= 0 THEN total_minutes
                   ELSE -total_minutes
    IN  sign \o Format02d(minutes \div 60) \o <<":">>
             \o Format02d(minutes % 60)

Outcome(e, v) == [exc |-> e, value |-> v]

\* resolve_timezone_offset, given what timezone_at returned (<<>> for
\* None) and what utcoffset() returned in seconds (<<>> for None)
resolve_timezone_offset(zone, off, d, t) ==
    IF zone = None
    THEN Outcome("HTTPException 422 Could not resolve timezone for location",
                 <<>>)
    ELSE IF ~_parse_local_datetime(d, t)
    THEN Outcome("HTTPException 422 time must be HH:MM or HH:MM:SS", <<>>)
    ELSE IF off = None
    THEN Outcome("HTTPException 422 Could not determine timezone offset",
                 <<>>)
    ELSE Outcome("", FormatOffset(TotalMinutes(off[1])))

\* the time string with day and month exchanged
build_vedastro_time_string_mdy(d, t, zone) ==
    LET parts == Split(d, "-")
    IN  IF Len(parts) # 3
        THEN Outcome("HTTPException 422 date must be YYYY-MM-DD", <<>>)
        ELSE IF t = <<>>
        THEN Outcome("HTTPException 422 time is required", <<>>)
        ELSE IF zone = None \/ zone = Some(<<>>)
        THEN Outcome("HTTPException 422 timezone is required", <<>>)
        ELSE Outcome("", t \o <<"/">> \o Strip(parts[2]) \o <<"/">>
                           \o Strip(parts[3]) \o <<"/">> \o Strip(parts[1])
                           \o <<"/">> \o zone[1])

\* build_vedastro_time_string; zone is <<>> for None, else <<s>>
build_vedastro_time_string(d, t, zone) ==
    LET parts == Split(d, "-")
    IN  IF Len(parts) # 3
        THEN Outcome("HTTPException 422 date must be YYYY-MM-DD", <<>>)
        ELSE IF t = <<>>
        THEN Outcome("HTTPException 422 time is required", <<>>)
        ELSE IF zone = None \/ zone = Some(<<>>)
        THEN Outcome("HTTPException 422 timezone is required", <<>>)
        ELSE Outcome("", t \o <<"/">> \o Strip(parts[3]) \o <<"/">>
                           \o Strip(parts[2]) \o <<"/">> \o Strip(parts[1])
                           \o <<"/">> \o zone[1])

\* Both functions applied to arguments drawn from Dates, Times and
\* Timezones; the zone database answers with an offset of Offsets.
OffsetQuarters == 56

Offsets ==
    { 900 * q : q \in -OffsetQuarters .. OffsetQuarters }
    \cup { -30, 30, 561, -17762, 86399, -86399 }

Dates ==
    { <<"2", "0", "2", "5", "-", "0", "2", "-", "0", "4">>,
      <<"2", "0", "2", "5", "-", "0", "2">>,
      <<"2", "0", "2", "5", "-", "0", "2", "-", "0", "4", "-", "1">>,
      <<" ", "2", "0", "2", "5", " ", "-", " ", "0", "2", " ", "-", "0", "4">>,
      <<"-", "-">>,
      <<>> }

Times ==
    { <<"0", "0", ":", "1", "2">>,
      <<"0", "0", ":", "1", "2", ":", "3", "0">>,
      <<" ">>,
      <<>> }

Timezones == { None, Some(<<>>), Some(<<"+", "0", "1", ":", "0", "0">>) }

FmtInit ==
    /\ route = "format"
    /\ pc = "ready"
    /\ data = JNull
    /\ pos = 0
    /\ sun_deg = None
    /\ moon_deg = None
    /\ planet_lons = <<>>
    /\ exc = ""
    /\ norm = None
    /\ tithi = NoResult /\ nakshatra = NoResult /\ yoga = NoResult
    /\ karana = NoResult /\ rashi = NoResult
    /\ place = <<>>
    /\ requests = <<>>
    /\ response = <<>>
    /\ location = <<>>
    /\ date \in Dates
    /\ time \in Times
    /\ timezone \in Timezones
    /\ tz_name = <<>>
    /\ offset = <<>>
    /\ tz_offset = <<>>
    /\ time_str = <<>>
    /\ urls = 0
    /\ last_error = <<>>
    /\ failures = <<>>
    /\ detail = <<>>
    /\ ExtInit

CallResolveTimezoneOffset ==
    /\ route = "format" /\ pc = "ready"
    /\ \E zone \in {None, Some("Europe/Paris")},
          off \in {None} \cup { Some(o) : o \in Offsets } :
          LET r == resolve_timezone_offset(zone, off, date, time)
          IN  /\ tz_name' = zone
              /\ offset' = IF zone = None \/ ~_parse_local_datetime(date, time)
                           THEN offset ELSE off
              /\ exc' = r.exc
              /\ tz_offset' = IF r.exc = "" THEN Some(r.value) ELSE tz_offset
              /\ pc' = IF r.exc = "" THEN "returned" ELSE "raised"
    /\ route' = "resolve_timezone_offset"
    /\ UNCHANGED <<date, time, timezone, time_str, locVars, fetchVars,
                   panchangVars>>
    /\ UNCHANGED extVars

CallBuildTimeString ==
    /\ route = "format" /\ pc = "ready"
    /\ LET r == build_vedastro_time_string(date, time, timezone)
       IN  /\ exc' = r.exc
           /\ time_str' = IF r.exc = "" THEN Some(r.value) ELSE time_str
           /\ pc' = IF r.exc = "" THEN "returned" ELSE "raised"
    /\ route' = "build_vedastro_time_string"
    /\ UNCHANGED <<date, time, timezone, tz_name, offset, tz_offset, locVars,
                   fetchVars, panchangVars>>
    /\ UNCHANGED extVars

FmtNext ==
    \/ CallResolveTimezoneOffset
    \/ CallBuildTimeString

FmtSpec == FmtInit /\ [][FmtNext]_vars

\* ------------------------------------------------------------------------
\* fetch_vedastro_candidates over urls = 1 .. n, n up to MaxCandidates; the
\* answer of the upstream service to each request is drawn from
\* UpstreamResponses.
\* ------------------------------------------------------------------------
MaxCandidates == 3

UpstreamResponses ==
    { Response("ConnectError", 0, JNull),
      Response("", 500, JNull),
      Response("", 200, NotJson),
      Response("", 200, JDict(<< <<"Status", JStr("Fail")>>,
                                 <<"Payload", JDict(<<>>)>> >>)),
      Response("", 200, JDict(<< <<"Status", JStr("Pass")>>,
                                 <<"Payload", JStr("Invalid API key")>> >>)),
      Response("", 200, JDict(<< <<"Status", JStr("Pass")>>,
                                 <<"Payload", JDict(<<>>)>> >>)),
      Response("", 200, JDict(<< <<"Payload", JDict(<<>>)>> >>)),
      Response("", 200, JList(<<>>)) }

\* HTTPException(status_code=502, detail=...): the detail as its kind, the
\* status code and the text it quotes
HTTPException502(kind, code, txt) ==
    [type |-> "HTTPException", status_code |-> 502,
     detail |-> <<kind, code, txt>>]

\* fetch_vedastro_url from the arrival of the response on: what is raised
\* (<<>> for nothing) and the data returned
fetch_vedastro_url(r) ==
    IF r.err # "" THEN [raised |-> Some([type |-> r.err]), value |-> JNull]
    ELSE IF r.status_code # 200
    THEN [raised |-> Some(HTTPException502("error", r.status_code, "")),
          value |-> JNull]
    ELSE IF r.json.t = "invalid"
    THEN [raised |-> Some([type |-> "JSONDecodeError"]), value |-> JNull]
    ELSE IF IsDict(r.json) /\ Truthy(Get(r.json, "Status"))
            /\ Get(r.json, "Status") # JStr("Pass")
    THEN [raised |-> Some(HTTPException502("status", 0,
                                           Get(r.json, "Status").s)),
          value |-> JNull]
    ELSE IF IsDict(r.json) /\ Get(r.json, "Payload").t \in {"str", "numstr"}
    THEN [raised |-> Some(HTTPException502("error:", 0,
                                           Get(r.json, "Payload").s)),
          value |-> JNull]
    ELSE [raised |-> None, value |-> r.json]

\* the handler keeping the first failure instead of the last
LastError_first(prev, e) == IF prev = None THEN Some(e) ELSE prev

\* except HTTPException as exc: last_error = exc
LastError(prev, e) == Some(e)

\* fetch_vedastro_candidates is called
FetchCandidates ==
    /\ pc = "idle"
    /\ \E n \in 0 .. MaxCandidates : urls' = n
    /\ route' = "fetch_vedastro_candidates"
    /\ last_error' = None
    /\ pos' = 1
    /\ pc' = "loop"
    /\ UNCHANGED <<data, sun_deg, moon_deg, planet_lons, exc, results,
                   locVars, fmtVars, failures, detail>>
    /\ UNCHANGED extVars

\* for url in urls: the request of fetch_vedastro_url(url, label)
CandidateRequest ==
    /\ pc = "loop"
    /\ pos <= urls
    /\ requests' = Append(requests, pos)
    /\ pc' = "await"
    /\ UNCHANGED <<route, pos, exc, panchangVars, place, response, location,
                   fmtVars, fetchVars>>
    /\ UNCHANGED extVars

\* a candidate that goes on to the next URL after a response that passed
CandidateResponse_continue ==
    /\ pc = "await"
    /\ \E r \in UpstreamResponses :
          /\ response' = Some(r)
          /\ LET got == fetch_vedastro_url(r)
             IN  IF got.raised = None
                 THEN /\ data' = got.value
                      /\ pos' = pos + 1
                      /\ pc' = "loop"
                      /\ UNCHANGED <<exc, last_error, failures>>
                 ELSE IF got.raised[1].type = "HTTPException"
                 THEN /\ last_error' = LastError(last_error, got.raised[1])
                      /\ failures' = Append(failures, got.raised[1])
                      /\ pos' = pos + 1
                      /\ pc' = "loop"
                      /\ UNCHANGED <<data, exc>>
                 ELSE /\ exc' = got.raised[1].type
                      /\ pc' = "raised"
                      /\ UNCHANGED <<data, pos, last_error, failures>>
    /\ UNCHANGED <<route, sun_deg, moon_deg, planet_lons, results, place,
                   requests, location, fmtVars, urls, detail>>
    /\ UNCHANGED extVars

\* fetch_vedastro_url from the response on, and the try/except around it
CandidateResponse ==
    /\ pc = "await"
    /\ \E r \in UpstreamResponses :
          /\ response' = Some(r)
          /\ LET got == fetch_vedastro_url(r)
             IN  IF got.raised = None
                 THEN /\ data' = got.value
                      /\ pc' = "returned"
                      /\ UNCHANGED <<pos, exc, last_error, failures>>
                 ELSE IF got.raised[1].type = "HTTPException"
                 THEN /\ last_error' = LastError(last_error, got.raised[1])
                      /\ failures' = Append(failures, got.raised[1])
                      /\ pos' = pos + 1
                      /\ pc' = "loop"
                      /\ UNCHANGED <<data, exc>>
                 ELSE /\ exc' = got.raised[1].type
                      /\ pc' = "raised"
                      /\ UNCHANGED <<data, pos, last_error, failures>>
    /\ UNCHANGED <<route, sun_deg, moon_deg, planet_lons, results, place,
                   requests, location, fmtVars, urls, detail>>
    /\ UNCHANGED extVars

\* after the loop: raise last_error, or the error of an empty list
CandidatesExhausted ==
    /\ pc = "loop"
    /\ pos > urls
    /\ detail' = IF last_error # None THEN Some(last_error[1].detail)
                 ELSE Some(<<"error:", 0, "no candidate URL succeeded">>)
    /\ exc' = "HTTPException 502"
    /\ pc' = "raised"
    /\ UNCHANGED <<route, pos, panchangVars, locVars, fmtVars, urls,
                   last_error, failures>>
    /\ UNCHANGED extVars

FetchNext ==
    \/ FetchCandidates
    \/ CandidateRequest
    \/ CandidateResponse
    \/ CandidatesExhausted

FetchSpec == Init /\ [][FetchNext]_vars

\* ------------------------------------------------------------------------
\* chunk_text (src/main.py and src/tools/ingest_pdf.py)
\* ------------------------------------------------------------------------

MaxTextLen == 3

\* the texts: letters and blanks, the empty text included
Texts == UNION { [1 .. n -> {"a", " "}] : n \in 0 .. MaxTextLen }

\* the parameter pairs, the rejected ones included
ChunkSizes == 0 .. MaxTextLen + 1
Overlaps == -1 .. MaxTextLen + 1

\* text[a:b] for 0 <= a <= b <= len(text)
Slice(s, a, b) == SubSeq(s, a + 1, b)

Min(a, b) == IF a < b THEN a ELSE b

\* the two copies of chunk_text differ in what they raise only
ChunkError ==
    IF route = "ingest_pdf.chunk_text" THEN "ValueError"
    ELSE "HTTPException 422"

ChunkInit ==
    /\ route \in {"main.chunk_text", "ingest_pdf.chunk_text"}
    /\ pc = "call"
    /\ data = JNull
    /\ pos = 0
    /\ sun_deg = None
    /\ moon_deg = None
    /\ planet_lons = <<>>
    /\ exc = ""
    /\ norm = None
    /\ tithi = NoResult /\ nakshatra = NoResult /\ yoga = NoResult
    /\ karana = NoResult /\ rashi = NoResult
    /\ place = <<>>
    /\ requests = <<>>
    /\ response = <<>>
    /\ location = <<>>
    /\ date = <<>>
    /\ time = <<>>
    /\ timezone = <<>>
    /\ tz_name = <<>>
    /\ offset = <<>>
    /\ tz_offset = <<>>
    /\ time_str = <<>>
    /\ urls = 0
    /\ last_error = <<>>
    /\ failures = <<>>
    /\ detail = <<>>
    /\ text \in Texts
    /\ chunk_size \in ChunkSizes
    /\ overlap \in Overlaps
    /\ start = 0
    /\ chunks = <<>>
    /\ FullIdle
    /\ JobIdle
    /\ PeriodIdle

chunkFrame ==
    <<route, data, pos, sun_deg, moon_deg, planet_lons, results, locVars,
      fmtVars, fetchVars, text, chunk_size, overlap, fullVars, jobVars,
      periodVars>>

\* the three checks of the parameters, then chunks = [], start = 0
ChunkValidate ==
    /\ pc = "call"
    /\ IF chunk_size <= 0 \/ overlap < 0 \/ overlap >= chunk_size
       THEN /\ exc' = ChunkError
            /\ pc' = "raised"
            /\ UNCHANGED <<start, chunks>>
       ELSE /\ start' = 0
            /\ chunks' = <<>>
            /\ pc' = "while"
            /\ UNCHANGED exc
    /\ UNCHANGED chunkFrame

\* while start < text_len: the test, and `return chunks` when it fails
ChunkTest ==
    /\ pc = "while"
    /\ pc' = IF start < Len(text) THEN "body" ELSE "returned"
    /\ UNCHANGED <<exc, start, chunks, chunkFrame>>

\* the body of the loop.  A run that ends appends at most len(text) chunks;
\* the chunks after the first MaxTextLen + 1 are not recorded.
ChunkBody ==
    /\ pc = "body"
    /\ LET end == Min(start + chunk_size, Len(text))
           chunk == Strip(Slice(text, start, end))
           next == IF end - overlap < 0 THEN 0 ELSE end - overlap
       IN  /\ chunks' = IF chunk # <<>> /\ Len(chunks) <= MaxTextLen
                        THEN Append(chunks, chunk) ELSE chunks
           /\ start' = next
           /\ pc' = IF next >= Len(text) THEN "break" ELSE "while"
    /\ UNCHANGED <<exc, chunkFrame>>

\* return chunks, after the break
ChunkReturn ==
    /\ pc = "break"
    /\ pc' = "returned"
    /\ UNCHANGED <<exc, start, chunks, chunkFrame>>

ChunkNext ==
    \/ ChunkValidate
    \/ ChunkTest
    \/ ChunkBody
    \/ ChunkReturn

ChunkSpec == ChunkInit /\ [][ChunkNext]_vars

\* ------------------------------------------------------------------------
\* POST /chart/full from the first upstream request on: the safe_fetch
\* calls in the order of the handler, each over its candidate URLs, the
\* Panchang between the IndianChart D12 and the DasaAtRange fetch.
\* ------------------------------------------------------------------------

\* the label of each safe_fetch and the number of candidate URLs of its
\* fetch function (fetch_all_planets requests its one URL directly)
SlotLabels ==
    <<"AllPlanetData", "AllHouseData", "IndianChart D1", "IndianChart D9",
      "IndianChart D12", "DasaAtRange">>

SlotUrls == <<1, 2, 3, 3, 3, 2>>

\* AllPlanetData bodies that carry the Sun: with the Moon and without
FullPayloads ==
    { JDict(<< <<"Status", JStr("Pass")>>, <<"Payload", JList(<<e>>)>> >>) :
        e \in { c \in EntryChoices : IsDict(c) /\ HasKey(c, "Sun") } }

\* the answers to a request: every one of UpstreamResponses and the bodies of
\* FullPayloads for AllPlanetData; for the later fetches the transport
\* error, the three HTTPException failures and one body that passes
SlotResponses(s) ==
    IF s = 1
    THEN UpstreamResponses \cup { Response("", 200, p) : p \in FullPayloads }
    ELSE { r \in UpstreamResponses :
             \/ r.err # ""
             \/ r.status_code # 200
             \/ IsDict(r.json) /\ HasKey(r.json, "Status") }

\* safe_fetch: what it returns
SafeOk(value) == [ok |-> TRUE, data |-> value, error |-> <<>>]

SafeError(label, e) ==
    [ok |-> FALSE, data |-> JNull, error |-> <<label, e.detail>>]

\* the handler up to the first safe_fetch; the location and the time string
\* are resolved, VEDASTRO_API_KEY is set or not
FullStart ==
    /\ pc = "idle"
    /\ route' = "chart_full"
    /\ include_dasa' \in BOOLEAN
    /\ dasa_range' \in BOOLEAN
    /\ slot' = 1
    /\ slots' = <<>>
    /\ pos' = 1
    /\ urls' = SlotUrls[1]
    /\ last_error' = None
    /\ \E key \in BOOLEAN :
          IF key
          THEN /\ pc' = "full_request"
               /\ UNCHANGED <<exc, detail>>
          ELSE /\ exc' = "HTTPException 502"
               /\ detail' = Some(<<SlotLabels[1], "VEDASTRO_API_KEY not set">>)
               /\ pc' = "raised"
    /\ UNCHANGED <<data, sun_deg, moon_deg, planet_lons, results, locVars,
                   fmtVars, failures, chunkVars, jobVars, periodVars>>

\* client.get(url) for the candidate at pos of the fetch in progress
FullRequest ==
    /\ pc = "full_request"
    /\ requests' = Append(requests, <<SlotLabels[slot], pos>>)
    /\ pc' = "full_await"
    /\ UNCHANGED <<route, pos, exc, panchangVars, place, response, location,
                   fmtVars, fetchVars, extVars>>

\* fetch_vedastro_url from the response on, inside the loop of
\* fetch_vedastro_candidates, inside safe_fetch, and the handler up to the
\* next request
FullResponse ==
    /\ pc = "full_await"
    /\ \E r \in SlotResponses(slot) :
          /\ LET got == fetch_vedastro_url(r)
                 failed == got.raised # None
                 http == failed /\ got.raised[1].type = "HTTPException"
                 retry == http /\ slot > 1 /\ pos < urls
                 result == IF http
                           THEN SafeError(SlotLabels[slot], got.raised[1])
                           ELSE SafeOk(got.value)
             IN  IF failed /\ ~http
                 THEN /\ exc' = got.raised[1].type
                      /\ pc' = "raised"
                      /\ UNCHANGED <<data, pos, detail, last_error, slot,
                                     slots, urls>>
                 ELSE IF retry
                 THEN /\ last_error' = LastError(last_error, got.raised[1])
                      /\ pos' = pos + 1
                      /\ pc' = "full_request"
                      /\ UNCHANGED <<data, exc, detail, slot, slots, urls>>
                 ELSE IF http /\ slot = 1
                 THEN /\ exc' = "HTTPException 502"
                      /\ detail' = Some(result.error)
                      /\ pc' = "raised"
                      /\ UNCHANGED <<data, pos, last_error, slot, slots, urls>>
                 ELSE /\ slots' = Append(slots, result)
                      /\ data' = IF slot = 1 THEN got.value ELSE data
                      /\ last_error' = None
                      /\ pos' = 1
                      /\ IF slot < 5
                         THEN /\ slot' = slot + 1
                              /\ urls' = SlotUrls[slot + 1]
                              /\ pc' = "full_request"
                         ELSE /\ pc' = IF slot = 5 THEN "sm_fast"
                                       ELSE "responded"
                              /\ UNCHANGED <<slot, urls>>
                      /\ UNCHANGED <<exc, detail>>
    /\ UNCHANGED <<route, sun_deg, moon_deg, planet_lons, results, locVars,
                   fmtVars, failures, chunkVars, jobVars, periodVars, include_dasa,
                   dasa_range>>

\* after the Panchang: the DasaAtRange fetch when asked for, else the
\* response
FullDasa ==
    /\ route = "chart_full" /\ pc = "done" /\ slot = 5
    /\ IF ~include_dasa
       THEN /\ pc' = "responded"
            /\ UNCHANGED <<exc, slot, urls, pos>>
       ELSE IF ~dasa_range
       THEN /\ exc' = "HTTPException 422 dasa_from and dasa_to are required"
            /\ pc' = "raised"
            /\ UNCHANGED <<slot, urls, pos>>
       ELSE /\ slot' = 6
            /\ urls' = SlotUrls[6]
            /\ pos' = 1
            /\ pc' = "full_request"
            /\ UNCHANGED exc
    /\ UNCHANGED <<route, data, sun_deg, moon_deg, planet_lons, results,
                   locVars, fmtVars, last_error, failures, detail, chunkVars,
                   jobVars, periodVars, include_dasa, dasa_range, slots>>

FullNext ==
    \/ FullStart
    \/ FullRequest
    \/ FullResponse
    \/ ExtractFast
    \/ WalkStep
    \/ WalkDone
    \/ FallbackStep
    \/ FallbackDone
    \/ ExtractCheck
    \/ Compute
    \/ FullDasa

FullSpec == Init /\ [][FullNext]_vars

\* ------------------------------------------------------------------------
\* The background ingest job: /knowledge/ingest-start queues
\* _run_knowledge_ingest_job, which runs knowledge_ingest over the pages of
\* the PDF files, chunk_text on every page with text;
\* /knowledge/ingest-status reads the job file at any time.
\* ------------------------------------------------------------------------

MaxPages == 2

\* POST /knowledge/ingest-start: the task is added, the job id returned
IngestStart ==
    /\ pc = "idle"
    /\ route' = "ingest_job"
    /\ chunk_size' \in ChunkSizes
    /\ overlap' \in Overlaps
    /\ pc' = "queued"
    /\ UNCHANGED <<data, pos, sun_deg, moon_deg, planet_lons, exc, results,
                   locVars, fmtVars, fetchVars, text, start, chunks, fullVars,
                   jobVars, periodVars>>

jobFrame ==
    <<route, data, pos, sun_deg, moon_deg, planet_lons, results, locVars,
      fmtVars, fetchVars, fullVars, periodVars, chunk_size, overlap, polled>>

\* _write_job_status(job_path, {"status": "running"})
WriteRunning ==
    /\ route = "ingest_job" /\ pc = "queued"
    /\ status' = Some("running")
    /\ writes' = Append(writes, "running")
    /\ pc' = "ingest"
    /\ UNCHANGED <<exc, pages, text, start, chunks, jobFrame>>

\* knowledge_ingest up to the loop over the pages: the PDF reader, the input
\* directory and its PDF files are there or not
IngestOpen ==
    /\ route = "ingest_job" /\ pc = "ingest"
    /\ \E e \in {"", "HTTPException 500 PDF reader not installed",
                  "HTTPException 422 Input directory not found",
                  "HTTPException 422 No PDF files found"} :
          /\ exc' = e
          /\ pc' = IF e = "" THEN "page" ELSE "raised"
    /\ \E n \in 0 .. MaxPages : pages' = n
    /\ UNCHANGED <<status, writes, text, start, chunks, jobFrame>>

\* the next page: skipped when it has no text, else chunk_text is called
IngestPage ==
    /\ route = "ingest_job" /\ pc = "page"
    /\ pages > 0
    /\ pages' = pages - 1
    /\ \E t \in Texts :
          /\ text' = t
          /\ pc' = IF Strip(t) = <<>> THEN "page" ELSE "call"
    /\ UNCHANGED <<exc, status, writes, start, chunks, jobFrame>>

\* the chunks of the page are written to the output file
IngestChunks ==
    /\ route = "ingest_job" /\ pc = "returned"
    /\ pc' = "page"
    /\ UNCHANGED <<exc, pages, status, writes, text, start, chunks, jobFrame>>

\* no page is left: knowledge_ingest returns and "completed" is written;
\* an exception was raised: "failed" is written
WriteTerminal ==
    /\ route = "ingest_job"
    /\ \/ pc = "page" /\ pages = 0
       \/ pc = "raised"
    /\ LET s == IF pc = "page" THEN "completed" ELSE "failed"
       IN  /\ status' = Some(s)
           /\ writes' = Append(writes, s)
    /\ pc' = "finished"
    /\ UNCHANGED <<exc, pages, text, start, chunks, jobFrame>>

\* GET /knowledge/ingest-status for the job id of the job
IngestStatus ==
    /\ route = "ingest_job"
    /\ polled' = IF status = <<>> THEN Some("Job not found") ELSE status
    /\ UNCHANGED <<route, pc, data, pos, sun_deg, moon_deg, planet_lons, exc,
                   results, locVars, fmtVars, fetchVars, chunkVars, fullVars,
                   periodVars, pages, status, writes>>

\* the steps of the background task
JobStep ==
    \/ WriteRunning
    \/ IngestOpen
    \/ IngestPage
    \/ ChunkValidate
    \/ ChunkTest
    \/ ChunkBody
    \/ ChunkReturn
    \/ IngestChunks
    \/ WriteTerminal

JobNext ==
    \/ IngestStart
    \/ JobStep
    \/ IngestStatus

JobSpec == Init /\ [][JobNext]_vars

\* the thread pool runs the task that was added until it returns
JobLiveSpec == JobSpec /\ WF_vars(JobStep)

\* ------------------------------------------------------------------------
\* The Panchang of a pair of longitudes, of the same pair with whole turns
\* added, and of the pair normalized first.  A turn is added only where the
\* sum is a float, so that the two longitudes differ by 360 degrees exactly.
\* ------------------------------------------------------------------------

Turns == {-1, 0, 1}

\* longitudes on a grid of ten degrees, and the ones around a boundary: a
\* Sun and a Moon whose difference is the float just below 12 degrees, and
\* the smallest negative longitude
PeriodSuns ==
    { 0, -1, Deg(-30), Deg(100) + Unit \div 2, Unit \div 8 + UlpBelow(12) }

PeriodMoons ==
    { Deg(10 * g) : g \in -6 .. 12 }
    \cup { -1, 1, Deg(12) + Unit \div 8, Deg(100) + Unit \div 2 }

IsFloat(n) == FRound(n) = n

PeriodInit ==
    /\ route = "period"
    /\ pc = "compute"
    /\ data = JNull
    /\ pos = 0
    /\ planet_lons = <<>>
    /\ sun_deg \in { Some(s) : s \in { x \in PeriodSuns : IsFloat(x) } }
    /\ moon_deg \in { Some(m) : m \in { x \in PeriodMoons : IsFloat(x) } }
    /\ exc = ""
    /\ norm = None
    /\ tithi = NoResult /\ nakshatra = NoResult /\ yoga = NoResult
    /\ karana = NoResult /\ rashi = NoResult
    /\ place = <<>>
    /\ requests = <<>>
    /\ response = <<>>
    /\ location = <<>>
    /\ date = <<>>
    /\ time = <<>>
    /\ timezone = <<>>
    /\ tz_name = <<>>
    /\ offset = <<>>
    /\ tz_offset = <<>>
    /\ time_str = <<>>
    /\ urls = 0
    /\ last_error = <<>>
    /\ failures = <<>>
    /\ detail = <<>>
    /\ ChunkIdle /\ FullIdle /\ JobIdle
    /\ turns \in { jk \in Turns \X Turns :
                     /\ IsFloat(sun_deg[1] + Deg(360 * jk[1]))
                     /\ IsFloat(moon_deg[1] + Deg(360 * jk[2])) }
    /\ plain = <<>>
    /\ shifted = <<>>

periodFrame ==
    <<route, data, pos, planet_lons, norm, results, locVars, fmtVars,
      fetchVars, chunkVars, fullVars, jobVars, turns>>

\* the Panchang of the pair as drawn is kept; the same longitudes j and k
\* turns away, sun + 360 j and moon + 360 k, are passed to the calculator
AddTurns ==
    /\ route = "period" /\ pc \in {"done", "raised"}
    /\ plain = <<>>
    /\ plain' = <<tithi, nakshatra, yoga, karana>>
    /\ sun_deg' = Some(FAdd(sun_deg[1], Deg(360 * turns[1])))
    /\ moon_deg' = Some(FAdd(moon_deg[1], Deg(360 * turns[2])))
    /\ exc' = ""
    /\ pc' = "compute"
    /\ UNCHANGED <<periodFrame, shifted>>

\* the Panchang of the turned pair is kept; a route that normalizes first:
\* sun_deg = deg_norm(sun_deg), moon_deg = deg_norm(moon_deg)
NormalizeFirst ==
    /\ route = "period" /\ pc \in {"done", "raised"}
    /\ plain # <<>> /\ shifted = <<>>
    /\ shifted' = <<tithi, nakshatra, yoga, karana>>
    /\ sun_deg' = Some(deg_norm(sun_deg[1]))
    /\ moon_deg' = Some(deg_norm(moon_deg[1]))
    /\ exc' = ""
    /\ pc' = "compute"
    /\ UNCHANGED <<periodFrame, plain>>

PeriodNext ==
    \/ Compute
    \/ AddTurns
    \/ NormalizeFirst

PeriodSpec == PeriodInit /\ [][PeriodNext]_vars

\* ------------------------------------------------------------------------
\* Properties of the calculator (checked under CalcSpec)
\* ------------------------------------------------------------------------
Sun0 == sun_deg[1]
Moon0 == moon_deg[1]
TithiDiff == deg_norm(FSub(Moon0, Sun0))

\* C1: for every sun and moon, compute_tithi returns index = floor(d/12)+1
\* with d = normalize(moon - sun), paksha Shukla exactly when index <= 15,
\* the name at position index of the 30-entry table (15 Purnima, 30
\* Amavasya) and progress = (d mod 12)/12; an exact multiple of 12 belongs
\* to the tithi that starts there, with progress 0.
C1_TithiContract ==
    tithi.st # "none" =>
        LET d == TithiDiff
            i == (d \div Deg(12)) + 1
        IN  /\ tithi.st = "ok"
            /\ tithi.index = i
            /\ i \in 1 .. 30
            /\ tithi.name = TITHI_NAMES[i]
            /\ (i = 15 => tithi.name = "Purnima")
            /\ (i = 30 => tithi.name = "Amavasya")
            /\ tithi.paksha = (IF i <= 15 THEN "Shukla" ELSE "Krishna")
            /\ tithi.progress = Round4(FDiv(d % Deg(12), Deg(12)))
            /\ (d % Deg(12) = 0 => tithi.progress = 0)
            /\ (Sun0 = 0 /\ Moon0 = Deg(12)
                    => tithi.index = 2 /\ tithi.progress = 0)
            /\ (Sun0 = 0 /\ Moon0 = 0
                    => /\ tithi.index = 1 /\ tithi.name = "Pratipada"
                       /\ tithi.paksha = "Shukla" /\ tithi.progress = 0)

\* C2: compute_karana returns half_tithi = floor(d/6)+1 with
\* d = normalize(moon - sun); the name is Kimstughna for 1, Shakuni,
\* Chatushpada, Naga for 58, 59, 60 and entry (half_tithi - 2) mod 7 of the
\* seven-name cycle for 2..57; every half_tithi in 1..60 is in one of the
\* three cases.
KaranaCycle ==
    <<"Bava", "Balava", "Kaulava", "Taitila", "Garaja", "Vanija", "Vishti">>

SegmentOf(a, res, table) ==
    LET n      == deg_norm(a)
        idx0   == Floor(FDiv(n, seg))
        within == FSub(n, FMulInt(idx0, seg))
    IN  /\ res.st = "ok"
        /\ idx0 \in 0 .. 26
        /\ res.index = idx0 + 1
        /\ res.name = table[idx0 + 1]
        /\ res.progress = Round4(FDiv(within, seg))

C3_SegmentContract ==
    /\ nakshatra.st # "none" =>
          /\ SegmentOf(Moon0, nakshatra, NAKSHATRA_NAMES)
          /\ LET n      == deg_norm(Moon0)
                 within == FSub(n, FMulInt(Floor(FDiv(n, seg)), seg))
             IN  nakshatra.pada = Floor(FDiv(within, FDiv(seg, Deg(4)))) + 1
          /\ (Moon0 = 0 => /\ nakshatra.index = 1
                           /\ nakshatra.name = "Ashwini"
                           /\ nakshatra.pada = 1
                           /\ nakshatra.progress = 0)
    /\ yoga.st # "none" =>
          /\ SegmentOf(FAdd(Sun0, Moon0), yoga, YOGA_NAMES)
          /\ yoga.index = compute_nakshatra(FAdd(Sun0, Moon0)).index
          /\ yoga.progress = compute_nakshatra(FAdd(Sun0, Moon0)).progress

\* C4: for every sun and moon (negative values and values of 360 or more
\* included) tithi index is in 1..30, nakshatra index in 1..27 with pada in
\* 1..4, yoga index in 1..27, karana index in 1..60, rashi index in 1..12
\* with degree_in_sign in [0,30), and no name table is indexed outside its
\* range.
C4_IndicesInRange ==
    /\ tithi.st # "none" => tithi.st = "ok" /\ tithi.index \in 1 .. 30
    /\ nakshatra.st # "none" =>
          /\ nakshatra.st = "ok"
          /\ nakshatra.index \in 1 .. 27
          /\ nakshatra.pada \in 1 .. 4
    /\ yoga.st # "none" => yoga.st = "ok" /\ yoga.index \in 1 .. 27
    /\ karana.st # "none" => karana.st = "ok" /\ karana.index \in 1 .. 60
    /\ rashi.st # "none" =>
          /\ rashi.st = "ok"
          /\ rashi.index \in 1 .. 12
          /\ rashi.degree_in_sign >= 0
          /\ rashi.degree_in_sign < 30 * 10000

\* C5: the progress returned by compute_tithi, compute_nakshatra,
\* compute_yoga and compute_karana, rounded to 4 decimal digits, is in
\* [0,1): never negative and never 1.0.
ProgressInUnit(res) ==
    res.st = "ok" => res.progress >= 0 /\ res.progress < 10000

C5_ProgressBelowOne ==
    /\ ProgressInUnit(tithi)
    /\ ProgressInUnit(nakshatra)
    /\ ProgressInUnit(yoga)
    /\ ProgressInUnit(karana)

\* C6: deg_norm maps every x to a value of [0,360) congruent to x modulo
\* 360 (to within the rounding of one float addition) and is idempotent.
C6_NormalizeContract ==
    norm # None =>
        LET y == norm[1]
            e == Sgn(Moon0) * (Abs(Moon0) % Deg(360))
            exact == IF e < 0 THEN e + Deg(360) ELSE e
        IN  /\ y >= 0
            /\ y < Deg(360)
            /\ 2 * Abs(y - exact) <= UlpBelow(360)
            /\ deg_norm(y) = y

\* ------------------------------------------------------------------------
\* Properties of the routes and of the extractor (checked under Spec)
\* ------------------------------------------------------------------------
ExtractRoutes == {"get_panchang", "chart_full"}
InExtraction == pc \in {"sm_fast", "sm_walk", "sm_fallback", "sm_check"}
ExtractionError == "HTTPException 500 Could not extract Sun/Moon"
InUnitCircle(x) == x >= 0 /\ x < Deg(360)

\* C7: in every route that computes a Panchang the sun and moon longitudes
\* passed to compute_tithi, compute_nakshatra, compute_yoga and
\* compute_karana have been normalized into [0,360).
C7_NormalizedBeforeCompute ==
    pc = "compute" =>
        /\ InUnitCircle(sun_deg[1])
        /\ InUnitCircle(moon_deg[1])

C9_SearchNeverRaises ==
    (route \in ExtractRoutes /\ pc = "raised" /\ tithi = NoResult)
        => exc = ExtractionError

\* C10: first match wins: once a planet is resolved, no later node of the
\* fast path, the PlanetName walk or the fallback overwrites it, and
\* extract_planet_longitudes keeps for each planet the value of the first
\* AllPlanetData entry that supplies one.
EntryValue(entry, name) ==
    IF ~IsDict(entry) \/ ~HasKey(entry, name) THEN None
    ELSE IF get_nirayana_total(Get(entry, name)) # None
         THEN get_nirayana_total(Get(entry, name))
         ELSE find_total_degrees(Get(entry, name))

FirstEntryValue(entries, name) ==
    IF \E j \in 1 .. Len(entries) : EntryValue(entries[j], name) # None
    THEN LET j0 == CHOOSE j \in 1 .. Len(entries) :
                      /\ EntryValue(entries[j], name) # None
                      /\ \A k \in 1 .. j - 1 :
                            EntryValue(entries[k], name) = None
         IN  EntryValue(entries[j0], name)
    ELSE None

C10_FirstMatchWins ==
    /\ [][ (pc \in {"sm_walk", "sm_fallback"})
              => /\ (sun_deg # None => sun_deg' = sun_deg)
                 /\ (moon_deg # None => moon_deg' = moon_deg) ]_vars
    /\ [](pc = "summary_planets"
            => \A k \in 1 .. Len(names) :
                  ResultGet(planet_lons, names[k])
                      = FirstEntryValue(AllPlanetData(data), names[k]))

\* C11: extract_planet_longitudes never raises and returns, for every
\* payload, a mapping whose keys are among the nine planet names, each at
\* most once, whose values are numbers read from a TotalDegrees field of the
\* entry keyed by that planet, and which is empty when the payload has no
\* AllPlanetData list.
RECURSIVE NumericTotals(_)
NumericTotals(x) ==
    IF IsDict(x)
    THEN UNION { (IF x.kv[j][1] = "TotalDegrees"
                       /\ x.kv[j][2].t \in {"num", "numstr"}
                  THEN {x.kv[j][2].n} ELSE {})
                 \cup NumericTotals(x.kv[j][2]) : j \in 1 .. Len(x.kv) }
    ELSE IF IsList(x)
    THEN UNION { NumericTotals(x.kv[j]) : j \in 1 .. Len(x.kv) }
    ELSE {}

C11_PlanetMapping ==
    pc = "summary_planets"
        => /\ exc = ""
           /\ \A j \in 1 .. Len(planet_lons) :
                 /\ \E k \in 1 .. Len(names) : planet_lons[j][1] = names[k]
                 /\ \A k \in 1 .. Len(planet_lons) :
                       planet_lons[k][1] = planet_lons[j][1] => k = j
                 /\ \E e \in 1 .. Len(AllPlanetData(data)) :
                       LET entry == AllPlanetData(data)[e]
                       IN  /\ IsDict(entry)
                           /\ HasKey(entry, planet_lons[j][1])
                           /\ planet_lons[j][2] \in
                                 NumericTotals(Get(entry, planet_lons[j][1]))
           /\ (AllPlanetData(data) = <<>> => planet_lons = <<>>)

\* a payload that resolves three planets, one of them from a second entry
C11_Witness ==
    /\ pc = "summary_planets"
    /\ Len(planet_lons) = 3
    /\ Len(AllPlanetData(data)) = 2

\* C12: the planet extractor is two-tier like the Sun/Moon extractor: on
\* every payload from which extract_sun_moon_longitudes obtains both
\* luminaries, extract_planet_longitudes holds Sun and Moon.
C12_TwoTier ==
    (route \in ExtractRoutes /\ pc \in {"normalize", "compute", "done"}
        /\ sun_deg # None /\ moon_deg # None)
        => /\ InResult(extract_planet_longitudes(data), "Sun")
           /\ InResult(extract_planet_longitudes(data), "Moon")

\* C13: resolve_location issues no geocoding request when the place is two
\* comma-separated floats and exactly one otherwise: never none, and never
\* a second one after the lookup failed.
TwoFloats(str) ==
    /\ Cardinality({ j \in 1 .. Len(str) : str[j] = "," }) = 1
    /\ LET c == CHOOSE j \in 1 .. Len(str) : str[j] = ","
       IN  /\ ParseFloat(Strip(SubSeq(str, 1, c - 1))) # None
           /\ ParseFloat(Strip(SubSeq(str, c + 1, Len(str)))) # None

C13_GeocodeOnce ==
    route = "resolve_location"
        => requests = IF TwoFloats(place) THEN <<>> ELSE <<"geocode">>

\* a lookup that failed, with its single request
C13_Witness ==
    /\ route = "resolve_location"
    /\ pc = "raised"
    /\ requests = <<"geocode">>
    /\ response[1].status_code = 500

\* C14 as stated: a place of two floats comes back unchanged, whatever its
\* spelling.
C14_PassthroughUnchanged ==
    (route = "resolve_location" /\ requests = <<>>) => location = Some(place)

\* C14 as amended: a place of two floats comes back, without a request, as
\* "<lat>,<lon>" with both floats in Python's float notation (no spaces, no
\* "+", a digit on both sides of the point, no superfluous zeros) and
\* equal in value to the floats written; it is the place itself exactly
\* when the place is already written so.
CanonicalFloat(str) ==
    LET body == IF Len(str) > 0 /\ str[1] = "-" THEN Tail(str) ELSE str
        dots == { j \in 1 .. Len(body) : body[j] = "." }
    IN  /\ Cardinality(dots) = 1
        /\ LET dot == CHOOSE j \in dots : TRUE
           IN  /\ dot > 1 /\ dot < Len(body)
               /\ \A j \in 1 .. Len(body) : j # dot => body[j] \in Digits
               /\ (dot = 2 \/ body[1] # "0")
               /\ (dot = Len(body) - 1 \/ body[Len(body)] # "0")

C14_PassthroughCanonical ==
    (route = "resolve_location" /\ requests = <<>>)
        => LET c    == CHOOSE j \in 1 .. Len(place) : place[j] = ","
               lat  == SubSeq(place, 1, c - 1)
               lon  == SubSeq(place, c + 1, Len(place))
               out  == Split(location[1], ",")
           IN  /\ Len(out) = 2
               /\ CanonicalFloat(out[1]) /\ CanonicalFloat(out[2])
               /\ ParseFloat(out[1]) = ParseFloat(Strip(lat))
               /\ ParseFloat(out[2]) = ParseFloat(Strip(lon))
               /\ (location[1] = place
                     <=> (CanonicalFloat(lat) /\ CanonicalFloat(lon)))

\* a place of two floats that comes back respelled
C14_Witness ==
    /\ route = "resolve_location"
    /\ requests = <<>>
    /\ location # None
    /\ location # Some(place)

\* C15: geocode_place returns a string only for a 200 response whose first
\* result has both fields parseable as floats, so every string
\* resolve_location returns parses as two floats.
C15_LocationParses ==
    (route = "resolve_location" /\ pc = "located")
        => TwoFloats(location[1])

\* C16: the offset string is a sign, two digits of hours, a colon and two
\* digits of minutes; the sign is "+" when the offset in whole minutes m is
\* >= 0 and "-" otherwise, never "-00:00"; hours = |m| div 60 and minutes =
\* |m| mod 60 in 0 .. 59; for an offset of whole minutes the string reads
\* back as exactly m.
WholeMinutes(seconds) ==
    CHOOSE m \in -1440 .. 1440 :
        IF seconds >= 0
        THEN 60 * m <= seconds /\ seconds < 60 * (m + 1)
        ELSE 60 * (m - 1) < seconds /\ seconds <= 60 * m

C16_OffsetFormat ==
    (route = "resolve_timezone_offset" /\ pc = "returned")
        => LET str == tz_offset[1]
               m   == WholeMinutes(offset[1])
               a   == IF m >= 0 THEN m ELSE -m
           IN  /\ Len(str) = 6
               /\ str[1] = IF m >= 0 THEN "+" ELSE "-"
               /\ str[4] = ":"
               /\ \A j \in {2, 3, 5, 6} : str[j] \in Digits
               /\ 10 * DigitVal(str[2]) + DigitVal(str[3]) = a \div 60
               /\ 10 * DigitVal(str[5]) + DigitVal(str[6]) = a % 60
               /\ 10 * DigitVal(str[5]) + DigitVal(str[6]) \in 0 .. 59
               /\ str # <<"-", "0", "0", ":", "0", "0">>
               /\ (offset[1] % 60 = 0
                     => (IF str[1] = "-" THEN -1 ELSE 1)
                           * (600 * DigitVal(str[2]) + 60 * DigitVal(str[3])
                              + 10 * DigitVal(str[5]) + DigitVal(str[6]))
                           * 60 = offset[1])

\* a negative offset with a half hour
C16_Witness ==
    /\ route = "resolve_timezone_offset"
    /\ pc = "returned"
    /\ offset = Some(-12600)
    /\ tz_offset = Some(<<"-", "0", "3", ":", "3", "0">>)

\* C17: build_vedastro_time_string returns time/day/month/year/timezone
\* when the date has exactly three dash-separated components and time and
\* timezone are non-empty, and raises a 422 error, producing no string, in
\* every other case.
ExampleDate == <<"2", "0", "2", "5", "-", "0", "2", "-", "0", "4">>
ExampleTime == <<"0", "0", ":", "1", "2">>
ExampleTimezone == <<"+", "0", "1", ":", "0", "0">>
ExampleTimeString ==
    <<"0", "0", ":", "1", "2", "/", "0", "4", "/", "0", "2", "/",
      "2", "0", "2", "5", "/", "+", "0", "1", ":", "0", "0">>

C17_TimeString ==
    route = "build_vedastro_time_string"
        => LET dashes == { j \in 1 .. Len(date) : date[j] = "-" }
           IN  IF /\ Cardinality(dashes) = 2
                  /\ time # <<>>
                  /\ timezone # None /\ timezone # Some(<<>>)
               THEN LET d1 == CHOOSE j \in dashes : \A k \in dashes : j <= k
                        d2 == CHOOSE j \in dashes : \A k \in dashes : k <= j
                        year  == Strip(SubSeq(date, 1, d1 - 1))
                        month == Strip(SubSeq(date, d1 + 1, d2 - 1))
                        day   == Strip(SubSeq(date, d2 + 1, Len(date)))
                    IN  /\ pc = "returned"
                        /\ exc = ""
                        /\ time_str = Some(time \o <<"/">> \o day \o <<"/">>
                                           \o month \o <<"/">> \o year
                                           \o <<"/">> \o timezone[1])
                        /\ (date = ExampleDate /\ time = ExampleTime
                               /\ timezone = Some(ExampleTimezone)
                              => time_str = Some(ExampleTimeString))
               ELSE /\ pc = "raised"
                    /\ time_str = None
                    /\ exc \in {"HTTPException 422 date must be YYYY-MM-DD",
                                "HTTPException 422 time is required",
                                "HTTPException 422 timezone is required"}

\* the example of the specification
C17_Witness ==
    /\ route = "build_vedastro_time_string"
    /\ pc = "returned"
    /\ date = ExampleDate
    /\ time_str = Some(ExampleTimeString)

\* C18: the candidates are requested strictly in list order, each at most
\* once, candidate i only after every candidate before it has failed; the
\* first success ends the trial and its data is what is returned.
C18_CandidateOrder ==
    /\ [](route = "fetch_vedastro_candidates"
            => /\ Len(requests) <= urls
               /\ \A j \in 1 .. Len(requests) : requests[j] = j
               /\ (pc = "returned"
                     => /\ fetch_vedastro_url(response[1]).raised = None
                        /\ data = response[1].json
                        /\ Len(failures) = Len(requests) - 1))
    /\ [][requests' # requests
            => /\ requests' = Append(requests, Len(requests) + 1)
               /\ Len(failures) = Len(requests)
               /\ response = None
                    \/ fetch_vedastro_url(response[1]).raised # None
               /\ pc \notin {"returned", "raised"}]_vars

\* the second of three candidates succeeded and the third was not requested
C18_Witness ==
    /\ route = "fetch_vedastro_candidates"
    /\ pc = "returned"
    /\ urls = 3
    /\ requests = <<1, 2>>
    /\ Len(failures) = 1

\* C19: whatever way a candidate fails, the next one is still attempted:
\* a failure is reported only after every candidate has been requested.
C19_TrialExhausted ==
    (route = "fetch_vedastro_candidates" /\ pc = "raised")
        => Len(requests) = urls

\* C20 as stated: the failure reported when every candidate failed carries
\* the failure of every candidate tried.
ReportedDetails == { detail[j] : j \in 1 .. Len(detail) }

C20_AllFailuresReported ==
    (route = "fetch_vedastro_candidates" /\ pc = "raised"
        /\ exc = "HTTPException 502")
        => \A j \in 1 .. Len(failures) :
              failures[j].detail \in ReportedDetails

\* C20 as amended: the failure reported when every candidate failed is the
\* failure of the last candidate alone, each failure having replaced the
\* one kept before it; an empty list reports "no candidate URL succeeded".
C20_LastFailureReported ==
    (route = "fetch_vedastro_candidates" /\ pc = "raised"
        /\ exc = "HTTPException 502")
        => /\ Len(failures) = urls
           /\ IF urls = 0
              THEN /\ last_error = None
                   /\ detail = Some(<<"error:", 0,
                                      "no candidate URL succeeded">>)
              ELSE /\ last_error = Some(failures[urls])
                   /\ detail = Some(failures[urls].detail)

\* three candidates failed in three ways and the last failure is reported
C20_Witness ==
    /\ route = "fetch_vedastro_candidates"
    /\ pc = "raised"
    /\ Len(failures) = 3
    /\ failures[1].detail # failures[3].detail
    /\ failures[2].detail # failures[3].detail
    /\ detail = Some(failures[3].detail)

\* ------------------------------------------------------------------------
\* Properties of chunk_text (checked under ChunkSpec)
\* ------------------------------------------------------------------------

\* C21: for accepted parameters the start position strictly increases on
\* every iteration of the loop, until it reaches the end of the text
C21_StartIncreases == [][pc = "body" => start' > start]_vars

\* ------------------------------------------------------------------------
\* Properties of POST /chart/full (checked under FullSpec)
\* ------------------------------------------------------------------------

\* the first request is the AllPlanetData one, and a request for anything
\* else is issued only after safe_fetch("AllPlanetData") returned ok
PlanetsFirst ==
    /\ requests # <<>> => requests[1] = <<"AllPlanetData", 1>>
    /\ Len(requests) > 1 => slots # <<>> /\ slots[1].ok
    /\ pc = "raised" /\ slot = 1 => Len(requests) <= 1

\* C22: the AllPlanetData fetch comes first and its failure aborts the
\* request before any other request is issued; no answer to a request of
\* AllHouseData, IndianChart D1/D9/D12 or DasaAtRange aborts the request,
\* and a request that responds carries the Panchang
C22_FailureNeverAborts ==
    /\ [](PlanetsFirst /\ (pc = "responded" => karana.st = "ok"))
    /\ [][pc = "full_await" /\ slot > 1 => pc' # "raised"]_vars

\* ------------------------------------------------------------------------
\* Properties of the background ingest job (checked under JobLiveSpec)
\* ------------------------------------------------------------------------

Terminal == {"completed", "failed"}

\* the statuses written are "running" and then at most one terminal status,
\* the file holds the last one written, and no ingest work is done before
\* "running" is written
JobStatusSequence ==
    /\ \/ writes = <<>> /\ status = <<>>
       \/ writes = <<"running">> /\ status = Some("running")
       \/ /\ Len(writes) = 2 /\ writes[1] = "running"
          /\ writes[2] \in Terminal /\ status = Some(writes[2])
    /\ pc \in {"ingest", "page", "call", "while", "body", "break", "returned",
               "raised"} => writes = <<"running">>

\* "Job not found" is the answer only while no status has been written
JobNotFound ==
    [][polled' # polled /\ polled' = Some("Job not found") =>
           writes = <<>>]_vars

\* C23: every job follows running -> completed or running -> failed, with
\* "running" written before any ingest work and one terminal status that
\* is never changed; every started job eventually reaches completed or
\* failed; "Job not found" is reported only before the first write
C23_JobLifecycle ==
    /\ []JobStatusSequence
    /\ JobNotFound
    /\ (pc = "queued") ~> (status # <<>> /\ status[1] \in Terminal)

\* ------------------------------------------------------------------------
\* Periodicity of the Panchang (checked under PeriodSpec)
\* ------------------------------------------------------------------------

\* C24: the Panchang of (sun + 360 j, moon + 360 k) is the Panchang of
\* (sun, moon) in every field, and a route that passes the longitudes as
\* they are returns the Panchang of a route that normalizes them first
C24_Periodic ==
    /\ shifted # <<>> => shifted = plain
    /\ shifted # <<>> /\ pc \in {"done", "raised"} =>
           <<tithi, nakshatra, yoga, karana>> = shifted

====
